---------------------------- MODULE Spec2Model ----------------------------
(***************************************************************************)
(* A model of libzet: the Attributes map (Attributes.py), the Zettel       *)
(* document with its Markdown and RST codecs (Zettel.py) and the           *)
(* multi-document pack / unpack functions (parsing.py).                    *)
(*                                                                         *)
(* Text is a TLA+ string and is processed character by character, as the   *)
(* Python code does: the str methods used by the code (strip, split,       *)
(* splitlines, join, lower, startswith, ...) are operators of this module. *)
(* A Python dict is an ordered dict: a sequence of [k, v] records with     *)
(* pairwise different keys, in insertion order.                            *)
(***************************************************************************)
EXTENDS Integers, Sequences, FiniteSets, TLC

VARIABLES
    pc,       \* position of the scenario being run
    fmt,      \* zettel_format: "md" or "rst"
    zin,      \* the Zettels handed to an encoder (a list)
    txt,      \* the text handed to a decoder
    enc,      \* the text first produced by the encoder
    zout,     \* what a decoder returned: [ok, zs] or [ok, err]
    txt2,     \* the text produced by encoding again
    docs,     \* history: the documents a text to unpack was joined from
    amap,     \* an Attributes instance
    assigned, \* history: the raw value last stored under each key of amap
    got,      \* what the last Attributes operation returned or raised
    before,   \* history: amap before the last Attributes operation
    held,     \* the Zettel objects the caller holds, by variable name
    heap,     \* the heading maps (dict objects) the Zettels refer to
    origin,   \* history: how each Zettel came to be, and with which attrs
    call,     \* history: the last update call and the objects it found
    files,    \* the file system: the text of every regular file, by path
    ret,      \* what the last call of editing.py returned, and what it found
    filter    \* the headings argument of the last getMd / getRst call

vars == <<pc, fmt, zin, txt, enc, zout, txt2, docs, amap, assigned, got, before,
          held, heap, origin, call, files, ret,
          filter>>

-----------------------------------------------------------------------------
(* Python str methods.                                                     *)

Ch(s, i) == SubSeq(s, i, i)

\* The characters str.strip(), str.lstrip() and str.split() treat as blank.
Whitespace == {" ", "\n", "\t"}

RECURSIVE lstrip(_)
lstrip(s) ==
    IF Len(s) > 0 /\ Ch(s, 1) \in Whitespace
    THEN lstrip(SubSeq(s, 2, Len(s)))
    ELSE s

RECURSIVE rstrip(_)
rstrip(s) ==
    IF Len(s) > 0 /\ Ch(s, Len(s)) \in Whitespace
    THEN rstrip(SubSeq(s, 1, Len(s) - 1))
    ELSE s

strip(s) == rstrip(lstrip(s))

startswith(s, p) == Len(p) <= Len(s) /\ SubSeq(s, 1, Len(p)) = p

endswith(s, p) == Len(p) <= Len(s) /\ SubSeq(s, Len(s) - Len(p) + 1, Len(s)) = p

\* The least element of a non-empty set of integers.
least(S) == CHOOSE x \in S : \A y \in S : x <= y

\* str.find from index i (1-based): the first index at which sub occurs, 0 if none.
find(s, sub, i) ==
    LET hits == {j \in i..(Len(s) - Len(sub) + 1) : SubSeq(s, j, j + Len(sub) - 1) = sub}
    IN  IF hits = {} THEN 0 ELSE least(hits)

contains(s, sub) == find(s, sub, 1) # 0

\* s.split(sep): the pieces between the non-overlapping occurrences of sep.
RECURSIVE split(_, _)
split(s, sep) ==
    LET i == find(s, sep, 1)
    IN  IF i = 0 THEN <<s>>
        ELSE <<SubSeq(s, 1, i - 1)>> \o split(SubSeq(s, i + Len(sep), Len(s)), sep)

\* s.splitlines(): the lines of s; a final newline opens no further line.
RECURSIVE splitlines(_)
splitlines(s) ==
    IF s = "" THEN <<>>
    ELSE LET i == find(s, "\n", 1)
         IN  IF i = 0 THEN <<s>>
             ELSE <<SubSeq(s, 1, i - 1)>> \o splitlines(SubSeq(s, i + 1, Len(s)))

\* sep.join(xs)
RECURSIVE join(_, _)
join(sep, xs) ==
    IF Len(xs) = 0 THEN ""
    ELSE IF Len(xs) = 1 THEN xs[1]
    ELSE xs[1] \o sep \o join(sep, Tail(xs))

\* The index of the first blank character of s, Len(s) + 1 if there is none.
RECURSIVE first_blank(_, _)
first_blank(s, i) ==
    IF i > Len(s) \/ Ch(s, i) \in Whitespace THEN i ELSE first_blank(s, i + 1)

\* s.split() without a separator: the words of s.
RECURSIVE words(_)
words(s) ==
    LET t == lstrip(s)
    IN  IF t = "" THEN <<>>
        ELSE LET n == first_blank(t, 1)
             IN  <<SubSeq(t, 1, n - 1)>> \o words(SubSeq(t, n, Len(t)))

UpperCase == "ABCDEFGHIJKLMNOPQRSTUVWXYZ"
LowerCase == "abcdefghijklmnopqrstuvwxyz"

\* s.lower()
RECURSIVE lower(_)
lower(s) ==
    IF s = "" THEN ""
    ELSE LET u == find(UpperCase, Ch(s, 1), 1)
         IN  (IF u = 0 THEN Ch(s, 1) ELSE Ch(LowerCase, u))
             \o lower(SubSeq(s, 2, Len(s)))

\* c * n
RECURSIVE repeat(_, _)
repeat(c, n) == IF n <= 0 THEN "" ELSE c \o repeat(c, n - 1)

\* The characters of the model in code point order: Python compares and
\* sorts str values by code point.
CodePoints ==
    "\t\n !#',-./0123456789:<=>ABCDEFGHIJKLMNOPQRSTUVWXYZ_abcdefghijklmnopqrstuvwxyz{}"

ord(c) == find(CodePoints, c, 1)

\* a < b for str: decided by the first position at which they differ.
str_lt(a, b) ==
    LET n == IF Len(a) < Len(b) THEN Len(a) ELSE Len(b)
        diff == {i \in 1..n : Ch(a, i) # Ch(b, i)}
    IN  IF diff = {} THEN Len(a) < Len(b)
        ELSE ord(Ch(a, least(diff))) < ord(Ch(b, least(diff)))

\* Insertion of x into a sorted list, after the elements not greater than it.
RECURSIVE insort(_, _)
insort(xs, x) ==
    IF Len(xs) = 0 THEN <<x>>
    ELSE IF str_lt(x, xs[1]) THEN <<x>> \o xs
    ELSE <<xs[1]>> \o insort(Tail(xs), x)

\* sorted(xs) for a list of str
RECURSIVE sorted(_)
sorted(xs) ==
    IF Len(xs) = 0 THEN <<>>
    ELSE insort(sorted(SubSeq(xs, 1, Len(xs) - 1)), xs[Len(xs)])

-----------------------------------------------------------------------------
(* Python dict: insertion ordered, keys unique.                            *)

dict_keys(d) == [i \in 1..Len(d) |-> d[i].k]

dict_has(d, k) == \E i \in 1..Len(d) : d[i].k = k

dict_get(d, k) == d[CHOOSE i \in 1..Len(d) : d[i].k = k].v

\* d[k] = v: an existing key keeps its position.
dict_set(d, k, v) ==
    IF dict_has(d, k)
    THEN [i \in 1..Len(d) |-> IF d[i].k = k THEN [k |-> k, v |-> v] ELSE d[i]]
    ELSE Append(d, [k |-> k, v |-> v])

\* del d[k]
dict_del(d, k) == SelectSeq(d, LAMBDA e : e.k # k)

\* d.update(other)
RECURSIVE dict_update(_, _)
dict_update(d, other) ==
    IF Len(other) = 0 THEN d
    ELSE dict_update(dict_set(d, other[1].k, other[1].v), Tail(other))

\* d == e for dicts: the same keys with the same values, in any order.
dict_eq(d, e) == {d[i] : i \in 1..Len(d)} = {e[i] : i \in 1..Len(e)}

-----------------------------------------------------------------------------
(* Attribute values. A value is a tagged record [t, v]; v is always a str  *)
(* so that any two values can be compared.                                 *)
(*   str   a Python str                                                    *)
(*   int   a Python int, v its decimal digits                              *)
(*   none  None (v = "")                                                   *)
(*   dict  the empty dict {} (v = "")                                      *)
(*   date  a SuperDate; v is its _date as YYYY-MM-DD, followed by " HH:MM" *)
(*         when _date is a datetime                                        *)

V_str(s) == [t |-> "str", v |-> s]
V_int(s) == [t |-> "int", v |-> s]
V_none == [t |-> "none", v |-> ""]
V_dict == [t |-> "dict", v |-> ""]
V_date(d) == [t |-> "date", v |-> d]

\* bool(val)
truthy(val) ==
    CASE val.t = "str" -> val.v # ""
      [] val.t = "int" -> val.v # "0"
      [] val.t = "none" -> FALSE
      [] val.t = "dict" -> FALSE
      [] OTHER -> TRUE

\* The calendar of the model: the dates SuperDate knows, with %a of each.
Calendar ==
    { [d |-> "2022-04-19", a |-> "Tue"],
      [d |-> "2026-11-02", a |-> "Mon"],
      [d |-> "2026-11-04", a |-> "Wed"] }

\* parse_date('today')
Today == "2026-11-02"

\* The length of YYYY-MM-DD.
IsoDateLen == 10

is_datetime(d) == Len(d) > IsoDateLen

weekday(d) == (CHOOSE c \in Calendar : c.d = SubSeq(d, 1, IsoDateLen)).a

\* v.strftime('%Y-%m-%d, %a') for a date, v.strftime('%Y-%m-%d, %a, %H:%M')
\* for a datetime.
strftime(d) ==
    IF is_datetime(d)
    THEN SubSeq(d, 1, IsoDateLen) \o ", " \o weekday(d) \o ", "
         \o SubSeq(d, IsoDateLen + 2, Len(d))
    ELSE d \o ", " \o weekday(d)

\* The _date values of the model.
DateValues == {c.d : c \in Calendar} \cup {"2022-04-19 10:30"}

\* The strings SuperDate parses, with the _date each gives; any other
\* string is not a date.
DateWords ==
    { [s |-> "today", d |-> Today], [s |-> "next wednesday", d |-> "2026-11-04"] }
    \cup { [s |-> d, d |-> d] : d \in DateValues }
    \cup { [s |-> strftime(d), d |-> d] : d \in DateValues }

\* SuperDate(val): [ok, val], ok = FALSE when SuperDate raises ValueError.
SuperDate(val) ==
    CASE val.t = "date" -> [ok |-> TRUE, val |-> val]
      [] val.t = "str" /\ (\E w \in DateWords : w.s = val.v) ->
            [ok |-> TRUE,
             val |-> V_date((CHOOSE w \in DateWords : w.s = val.v).d)]
      [] OTHER -> [ok |-> FALSE, val |-> val]

-----------------------------------------------------------------------------
(* Attributes.py                                                           *)

dtfields == {"event_begin", "event_end", "recurring_stop"}

\* key in dtfields or 'date' in key
is_date_key(key) == key \in dtfields \/ contains(key, "date")

\* What a lookup miss returns.
NoCompare == [t |-> "NoCompare", v |-> ""]

\* __getitem__ answering None for a key that is not set, as dict.get does.
Attributes_getitem_none(self, key) ==
    IF dict_has(self, key) THEN dict_get(self, key) ELSE V_none

\* Attributes.__getitem__
Attributes_getitem(self, key) ==
    IF dict_has(self, key) THEN dict_get(self, key) ELSE NoCompare

\* __setitem__ parsing only under keys that contain `date`, the dtfields
\* forgotten.
Attributes_setitem_date_only(self, key, val) ==
    IF truthy(val) /\ contains(key, "date")
    THEN LET sd == SuperDate(val)
         IN  IF sd.ok
             THEN [ok |-> TRUE, d |-> dict_set(self, key, sd.val), err |-> ""]
             ELSE [ok |-> FALSE, d |-> self, err |-> "ValueError"]
    ELSE [ok |-> TRUE, d |-> dict_set(self, key, val), err |-> ""]

\* __setitem__ storing the value as given before it raises for a value that
\* is not a date.
Attributes_setitem_keep_raw(self, key, val) ==
    IF truthy(val) /\ is_date_key(key)
    THEN LET sd == SuperDate(val)
         IN  IF sd.ok
             THEN [ok |-> TRUE, d |-> dict_set(self, key, sd.val), err |-> ""]
             ELSE [ok |-> FALSE, d |-> dict_set(self, key, val), err |-> "ValueError"]
    ELSE [ok |-> TRUE, d |-> dict_set(self, key, val), err |-> ""]

\* Attributes.__setitem__: [ok, d, err]; d is the map afterwards.
Attributes_setitem(self, key, val) ==
    IF truthy(val) /\ is_date_key(key)
    THEN LET sd == SuperDate(val)
         IN  IF sd.ok
             THEN [ok |-> TRUE, d |-> dict_set(self, key, sd.val), err |-> ""]
             ELSE [ok |-> FALSE, d |-> self, err |-> "ValueError"]
    ELSE [ok |-> TRUE, d |-> dict_set(self, key, val), err |-> ""]

\* Attributes.update: one __setitem__ per item, in order; the first one that
\* raises ends the loop, the items before it stay stored.
RECURSIVE Attributes_update(_, _)
Attributes_update(self, other) ==
    IF Len(other) = 0 THEN [ok |-> TRUE, d |-> self, err |-> ""]
    ELSE LET r == Attributes_setitem(self, other[1].k, other[1].v)
         IN  IF r.ok THEN Attributes_update(r.d, Tail(other)) ELSE r

\* Attributes.__init__
Attributes_init(other) == Attributes_update(<<>>, other)

\* Attributes.toYamlDict
toYamlDict(self) ==
    [i \in 1..Len(self) |->
        IF truthy(self[i].v) /\ is_date_key(self[i].k) /\ self[i].v.t = "date"
        THEN [k |-> self[i].k, v |-> V_str(strftime(self[i].v.v))]
        ELSE self[i]]

\* How yaml.dump writes a scalar after "key:".
yaml_scalar(val) ==
    CASE val.t = "none" -> " null"
      [] val.t = "dict" -> " {}"
      [] val.t = "str" /\ val.v = "" -> " ''"
      [] OTHER -> " " \o val.v

\* A dump that leaves the entries in insertion order (sort_keys=False).
sort_keys_as_inserted(d) == d

\* The entries of d ordered by key (yaml.dump sorts the keys of a mapping).
sort_keys(d) ==
    LET ks == sorted(dict_keys(d))
    IN  [i \in 1..Len(ks) |-> [k |-> ks[i], v |-> dict_get(d, ks[i])]]

RECURSIVE yaml_lines(_)
yaml_lines(d) ==
    IF Len(d) = 0 THEN ""
    ELSE d[1].k \o ":" \o yaml_scalar(d[1].v) \o "\n" \o yaml_lines(Tail(d))

\* yaml.dump(d) for a dict of scalars
yaml_dump(d) == IF Len(d) = 0 THEN "{}\n" ELSE yaml_lines(sort_keys(d))

\* Attributes.__str__
Attributes_str(self) == "---\n" \o yaml_dump(toYamlDict(self))

-----------------------------------------------------------------------------
(* yaml.safe_load, for the documents the model handles: an optional `---`  *)
(* line, then a block mapping of one `key: scalar` per line. The result is *)
(* [ok, kind, d]: kind "dict" with the mapping d, kind "none" for an empty *)
(* document, kind "str" for a document that is one plain scalar; ok is     *)
(* FALSE when the text is not well-formed YAML (yaml.YAMLError).           *)

indent_of(line) == Len(line) - Len(lstrip(line))

\* The value a plain scalar stands for.
yaml_value(s) ==
    CASE s \in {"", "null", "~"} -> V_none
      [] s = "{}" -> V_dict
      [] s = "''" -> V_str("")
      [] s = "0" -> V_int("0")
      [] OTHER -> V_str(s)

\* A flow collection or quoted scalar that is opened and not closed.
yaml_unclosed(s) ==
    /\ s # ""
    /\ Ch(s, 1) \in {"[", "{", "'"}
    /\ s \notin {"{}", "''"}

\* One line of a block mapping: [ok, k, v].
yaml_entry(line) ==
    LET c == strip(line)
        i == find(c, ":", 1)
        rest == SubSeq(c, i + 1, Len(c))
    IN  IF i <= 1 THEN [ok |-> FALSE, k |-> "", v |-> V_none]
        ELSE IF rest # "" /\ Ch(rest, 1) # " "
             THEN [ok |-> FALSE, k |-> "", v |-> V_none]
        ELSE IF yaml_unclosed(strip(rest)) \/ contains(strip(rest), ": ")
             THEN [ok |-> FALSE, k |-> "", v |-> V_none]
        ELSE [ok |-> TRUE, k |-> SubSeq(c, 1, i - 1), v |-> yaml_value(strip(rest))]

RECURSIVE yaml_mapping(_, _, _)
yaml_mapping(lines, ind, acc) ==
    IF Len(lines) = 0 THEN [ok |-> TRUE, kind |-> "dict", d |-> acc]
    ELSE IF strip(lines[1]) = "" THEN yaml_mapping(Tail(lines), ind, acc)
    ELSE LET e == yaml_entry(lines[1])
         IN  IF indent_of(lines[1]) # ind \/ ~e.ok
             THEN [ok |-> FALSE, kind |-> "", d |-> <<>>]
             ELSE yaml_mapping(Tail(lines), ind, dict_set(acc, e.k, e.v))

yaml_safe_load(s) ==
    LET all == splitlines(s)
        body == IF Len(all) > 0 /\ rstrip(all[1]) = "---" THEN Tail(all) ELSE all
        real == SelectSeq(body, LAMBDA l : strip(l) # "")
    IN  IF Len(real) = 0 THEN [ok |-> TRUE, kind |-> "none", d |-> <<>>]
        ELSE IF Len(real) = 1 /\ ~contains(real[1], ":")
                /\ ~yaml_unclosed(strip(real[1]))
             THEN [ok |-> TRUE, kind |-> "str", d |-> <<>>]
        ELSE yaml_mapping(real, indent_of(real[1]), <<>>)

-----------------------------------------------------------------------------
(* Zettel.py. A Zettel is [title, headings, attrs]; headings is a dict of  *)
(* str bodies, attrs the dict of an Attributes instance. An operation that *)
(* can raise returns [ok, z, err].                                         *)

NoZettel == [title |-> "", headings |-> <<>>, attrs |-> <<>>]

Raised(e) == [ok |-> FALSE, z |-> NoZettel, err |-> e]

Returned(z) == [ok |-> TRUE, z |-> z, err |-> ""]

\* A constructor that adds no creation_date and no zlinks.
Zettel_init_no_defaults(title, headings, attrs) ==
    IF ~Attributes_update(<<>>, attrs).ok THEN Raised(Attributes_update(<<>>, attrs).err)
    ELSE Returned([title |-> title, headings |-> headings,
                   attrs |-> Attributes_update(<<>>, attrs).d])

\* self.attrs[key] = val if key not in self.attrs
with_default(d, key, val) ==
    IF dict_has(d, key) THEN d ELSE Attributes_setitem(d, key, val).d

\* Zettel.__init__ once self.attrs.update(attrs) returned or raised a1.
Zettel_made(title, headings, a1) ==
    IF ~a1.ok THEN Raised(a1.err)
    ELSE Returned([title |-> title, headings |-> headings,
                   attrs |-> with_default(
                                 with_default(a1.d, "creation_date", V_date(Today)),
                                 "zlinks", V_dict)])

\* Zettel.__init__(title, headings, attrs)
Zettel_init(title, headings, attrs) ==
    Zettel_made(title, headings, Attributes_update(<<>>, attrs))

\* The constructor called with what yaml.safe_load returned: None becomes
\* dict(), and dict(a str) raises ValueError.
Zettel_from_yaml(title, headings, y) ==
    IF ~y.ok THEN Raised("YAMLError")
    ELSE IF y.kind = "str" THEN Raised("ValueError")
    ELSE Zettel_init(title, headings, y.d)

\* The first for loop of Zettel.update over exp_headings: mine is
\* self.headings, theirs is new_zettel.headings, same says that they are one
\* and the same dict.
RECURSIVE del_missing(_, _, _, _)
del_missing(mine, theirs, exp_headings, same) ==
    IF Len(exp_headings) = 0 THEN mine
    ELSE del_missing(
            IF /\ ~dict_has(IF same THEN mine ELSE theirs, Head(exp_headings))
               /\ dict_has(mine, Head(exp_headings))
            THEN dict_del(mine, Head(exp_headings)) ELSE mine,
            theirs, Tail(exp_headings), same)

\* The else branch of Zettel.update without its for loop: nothing is deleted.
reconciled_keep_all(mine, theirs, exp_headings, same) ==
    dict_update(mine, IF same THEN mine ELSE theirs)

\* self.headings after the else branch of Zettel.update.
reconciled(mine, theirs, exp_headings, same) ==
    dict_update(del_missing(mine, theirs, exp_headings, same),
                IF same THEN del_missing(mine, theirs, exp_headings, same)
                ELSE theirs)

\* self.attrs after Zettel.update, [ok, d, err]: a fresh Attributes takes the
\* items of new_zettel.attrs, then creation_date is set back. When self is
\* new_zettel, new_zettel.attrs is that fresh, empty Attributes.
updated_attrs(self, new_zettel, is_self) ==
    IF Attributes_update(<<>>, IF is_self THEN <<>> ELSE new_zettel.attrs).ok
    THEN Attributes_setitem(
            Attributes_update(<<>>, IF is_self THEN <<>> ELSE new_zettel.attrs).d,
            "creation_date", Attributes_getitem(self.attrs, "creation_date"))
    ELSE Attributes_update(<<>>, IF is_self THEN <<>> ELSE new_zettel.attrs)

\* An update that, without exp_headings, gives self a copy of the heading
\* map of new_zettel instead of the map itself.
Zettel_update_copy(self, new_zettel, exp_headings, hp, is_self) ==
    IF ~updated_attrs(self, new_zettel, is_self).ok
    THEN [ok |-> FALSE, heap |-> hp,
          z |-> [self EXCEPT !.title = new_zettel.title,
                             !.attrs = updated_attrs(self, new_zettel, is_self).d]]
    ELSE IF Len(exp_headings) = 0
    THEN [ok |-> TRUE, heap |-> Append(hp, hp[new_zettel.headings]),
          z |-> [title |-> new_zettel.title, headings |-> Len(hp) + 1,
                 attrs |-> updated_attrs(self, new_zettel, is_self).d]]
    ELSE [ok |-> TRUE,
          heap |-> [hp EXCEPT ![self.headings] =
                      reconciled(hp[self.headings], hp[new_zettel.headings],
                                 exp_headings,
                                 self.headings = new_zettel.headings)],
          z |-> [title |-> new_zettel.title, headings |-> self.headings,
                 attrs |-> updated_attrs(self, new_zettel, is_self).d]]

\* Zettel.update(new_zettel, exp_headings) on self, with the heading maps in
\* hp: [ok, z, heap]. is_self says that new_zettel is self. When it raises,
\* the title and the attrs set so far stay, the headings are as before.
Zettel_update(self, new_zettel, exp_headings, hp, is_self) ==
    IF ~updated_attrs(self, new_zettel, is_self).ok
    THEN [ok |-> FALSE, heap |-> hp,
          z |-> [self EXCEPT !.title = new_zettel.title,
                             !.attrs = updated_attrs(self, new_zettel, is_self).d]]
    ELSE IF Len(exp_headings) = 0
    THEN [ok |-> TRUE, heap |-> hp,
          z |-> [title |-> new_zettel.title, headings |-> new_zettel.headings,
                 attrs |-> updated_attrs(self, new_zettel, is_self).d]]
    ELSE [ok |-> TRUE,
          heap |-> [hp EXCEPT ![self.headings] =
                      reconciled(hp[self.headings], hp[new_zettel.headings],
                                 exp_headings,
                                 self.headings = new_zettel.headings)],
          z |-> [title |-> new_zettel.title, headings |-> self.headings,
                 attrs |-> updated_attrs(self, new_zettel, is_self).d]]

_is_rst_heading(s) == startswith(strip(s), "=") /\ endswith(strip(s), "=")

_is_md_heading(s) == startswith(lstrip(s), "## ")

md_attr_header == "<!--- attributes --->"

rst_attr_header == ".. attributes\n::"

\* [x for x, y in enumerate(lines) if is_heading(y)], 0-based as in Python
md_heading_pts(lines) ==
    SelectSeq([i \in 1..Len(lines) |-> i - 1],
              LAMBDA x : _is_md_heading(lines[x + 1]))
    \o <<Len(lines)>>

\* A slice bound of Python for a list of n items: a negative bound counts
\* from the end, and a bound outside the list is clamped.
bound(i, n) ==
    IF i < 0 THEN (IF i + n < 0 THEN 0 ELSE i + n)
    ELSE IF i > n THEN n ELSE i

\* lines[a:b] of Python
slice(lines, a, b) ==
    LET lo == bound(a, Len(lines))
        hi == bound(b, Len(lines))
    IN  IF hi <= lo THEN <<>> ELSE SubSeq(lines, lo + 1, hi)

\* lines[i] of Python for -len <= i < len
item(lines, i) == IF i < 0 THEN lines[i + Len(lines) + 1] ELSE lines[i + 1]

\* The for loop of createFromMd over heading_pts, from ptr on.
RECURSIVE md_headings(_, _, _, _)
md_headings(md, pts, ptr, headings) ==
    IF ptr > Len(pts) - 1 THEN headings
    ELSE LET heading == strip(join("", Tail(split(md[pts[ptr] + 1], "## "))))
             content_start == pts[ptr] + 1
             content_end == pts[ptr + 1]
         IN  md_headings(md, pts, ptr + 1,
                 dict_set(headings, heading,
                          join("\n", slice(md, content_start, content_end))))

\* text.split(header), with the empty attribute text appended when the header
\* is not in the text.
header_parts(text, header) ==
    LET parts == split(text, header)
    IN  IF Len(parts) = 1 THEN Append(parts, "") ELSE parts

\* createFromMd from the lines before the attribute header on.
md_from_lines(md1, attributes) ==
    LET has_title == Len(md1) > 0 /\ startswith(strip(md1[1]), "# ")
        title == IF has_title THEN join(" ", Tail(words(md1[1]))) ELSE ""
        md == IF has_title THEN Tail(md1) ELSE md1
        heading_pts == md_heading_pts(md)
        notes == join("\n", slice(md, 0, heading_pts[1]))
        headings0 == IF notes = "" THEN <<>> ELSE <<[k |-> "_notes", v |-> notes]>>
    IN  Zettel_from_yaml(title, md_headings(md, heading_pts, 1, headings0),
                         attributes)

\* createFromMd from the parts around the attribute header on.
md_from_parts(parts) ==
    md_from_lines(
        splitlines(join(md_attr_header, SubSeq(parts, 1, Len(parts) - 1))),
        yaml_safe_load(strip(parts[Len(parts)])))

\* Zettel.createFromMd, for text that is not the name of an existing file.
createFromMd(text) ==
    IF strip(text) = "" THEN Zettel_init("", <<>>, <<>>)
    ELSE md_from_parts(header_parts(strip(text), md_attr_header))

\* The headings a getMd / getRst call iterates: the filter, else every stored
\* key, each lower-cased.
wanted(self, headings) ==
    LET hs == IF Len(headings) = 0 THEN dict_keys(self.headings) ELSE headings
    IN  [i \in 1..Len(hs) |-> lower(hs[i])]

\* {k.lower(): k for k in self.headings}
lookup_headings(self) ==
    dict_update(<<>>, [i \in 1..Len(self.headings) |->
        [k |-> lower(self.headings[i].k), v |-> self.headings[i].k]])

\* The for loop of getMd over the wanted headings.
RECURSIVE md_sections(_, _, _)
md_sections(self, hs, lookup) ==
    IF Len(hs) = 0 THEN <<>>
    ELSE IF hs[1] = "_notes" \/ ~dict_has(lookup, hs[1])
         THEN md_sections(self, Tail(hs), lookup)
    ELSE <<"## " \o dict_get(lookup, hs[1]),
           dict_get(self.headings, dict_get(lookup, hs[1]))>>
         \o md_sections(self, Tail(hs), lookup)

\* x in xs for a list
in_list(x, xs) == \E i \in 1..Len(xs) : xs[i] = x

\* '    ' + x for each line of str(self.attrs)
attr_lines(self) ==
    LET ls == splitlines(Attributes_str(self.attrs))
    IN  [i \in 1..Len(ls) |-> "    " \o ls[i]]

\* Zettel.getMd(headings): [ok, s, err]; self.headings['_notes'] raises
\* KeyError when '_notes' is wanted and is not a stored key.
getMd(self, headings) ==
    LET hs == wanted(self, headings)
        s1 == IF self.title # "" THEN <<"# " \o self.title>> ELSE <<>>
        s2 == IF in_list("_notes", hs) /\ dict_get(self.headings, "_notes") # ""
              THEN <<dict_get(self.headings, "_notes")>> ELSE <<>>
        s3 == md_sections(self, hs, lookup_headings(self))
    IN  IF in_list("_notes", hs) /\ ~dict_has(self.headings, "_notes")
        THEN [ok |-> FALSE, s |-> "", err |-> "KeyError"]
        ELSE [ok |-> TRUE, err |-> "",
              s |-> join("\n", s1 \o s2 \o s3 \o <<md_attr_header>>
                               \o attr_lines(self) \o <<"">>)]

\* [x - 1 for x, y in enumerate(rst) if _is_rst_heading(y)] + [len(rst)]
rst_heading_pts(lines) ==
    LET rules == SelectSeq([i \in 1..Len(lines) |-> i - 1],
                           LAMBDA x : _is_rst_heading(lines[x + 1]))
    IN  [i \in 1..Len(rules) |-> rules[i] - 1] \o <<Len(lines)>>

\* The for loop of createFromRst over heading_pts, from ptr on.
RECURSIVE rst_headings(_, _, _, _)
rst_headings(rst, pts, ptr, headings) ==
    IF ptr > Len(pts) - 1 THEN headings
    ELSE LET heading == item(rst, pts[ptr])
             content_start == pts[ptr] + 2
             content_end == pts[ptr + 1]
         IN  rst_headings(rst, pts, ptr + 1,
                 dict_set(headings, heading,
                          join("\n", slice(rst, content_start, content_end))))

\* createFromRst from the lines before the attribute header on.
rst_from_lines(rst1, attributes) ==
    LET has_title == /\ Len(rst1) >= 3
                     /\ _is_rst_heading(rst1[1])
                     /\ _is_rst_heading(rst1[3])
        title == IF has_title THEN strip(rst1[2]) ELSE ""
        rst == IF has_title THEN SubSeq(rst1, 4, Len(rst1)) ELSE rst1
        heading_pts == rst_heading_pts(rst)
        notes == join("\n", slice(rst, 0, heading_pts[1]))
        headings0 == IF notes = "" THEN <<>> ELSE <<[k |-> "_notes", v |-> notes]>>
    IN  Zettel_from_yaml(title, rst_headings(rst, heading_pts, 1, headings0),
                         attributes)

\* createFromRst from the parts around the attribute header on.
rst_from_parts(parts) ==
    rst_from_lines(
        splitlines(join(rst_attr_header, SubSeq(parts, 1, Len(parts) - 1))),
        yaml_safe_load(strip(parts[Len(parts)])))

\* Zettel.createFromRst, for text that is not the name of an existing file.
createFromRst(text) ==
    IF strip(text) = "" THEN Zettel_init("", <<>>, <<>>)
    ELSE rst_from_parts(header_parts(strip(text), rst_attr_header))

\* The for loop of getRst over the wanted headings.
RECURSIVE rst_sections(_, _, _)
rst_sections(self, hs, lookup) ==
    IF Len(hs) = 0 THEN <<>>
    ELSE IF hs[1] = "_notes" \/ ~dict_has(lookup, hs[1])
         THEN rst_sections(self, Tail(hs), lookup)
    ELSE <<dict_get(lookup, hs[1]),
           repeat("=", Len(dict_get(lookup, hs[1]))),
           dict_get(self.headings, dict_get(lookup, hs[1]))>>
         \o rst_sections(self, Tail(hs), lookup)

\* Zettel.getRst(headings): [ok, s, err]
getRst(self, headings) ==
    LET hs == wanted(self, headings)
        rule == repeat("=", Len(self.title) + 2)
        s1 == IF self.title # "" THEN <<rule, " " \o self.title, rule>> ELSE <<>>
        s2 == IF in_list("_notes", hs)
              THEN <<dict_get(self.headings, "_notes")>> ELSE <<>>
        s3 == rst_sections(self, hs, lookup_headings(self))
    IN  IF in_list("_notes", hs) /\ ~dict_has(self.headings, "_notes")
        THEN [ok |-> FALSE, s |-> "", err |-> "KeyError"]
        ELSE [ok |-> TRUE, err |-> "",
              s |-> join("\n", s1 \o s2 \o s3 \o <<".. attributes", "::", "">>
                               \o attr_lines(self) \o <<"">>)]

-----------------------------------------------------------------------------
(* parsing.py                                                              *)

rst_sep == ".. end-zettel"

md_sep == "<!--- end-zettel --->"

formats == {"rst", "md"}

sep_of(zettel_format) == IF zettel_format = "rst" THEN rst_sep ELSE md_sep

encode(z, zettel_format, headings) ==
    IF zettel_format = "rst" THEN getRst(z, headings) ELSE getMd(z, headings)

decode(text, zettel_format) ==
    IF zettel_format = "rst" THEN createFromRst(text) ELSE createFromMd(text)

\* zettels_to_str joining the documents in the order given, without sorted().
zettels_to_str_unsorted(zettels, zettel_format, headings) ==
    LET text == [i \in 1..Len(zettels) |-> encode(zettels[i], zettel_format, headings)]
        kept == SelectSeq([i \in 1..Len(text) |-> text[i].s], LAMBDA x : x # "")
    IN  IF zettel_format \notin formats
        THEN [ok |-> FALSE, s |-> "", err |-> "ValueError"]
        ELSE IF \E i \in 1..Len(text) : ~text[i].ok
        THEN [ok |-> FALSE, s |-> "", err |-> "KeyError"]
        ELSE [ok |-> TRUE, err |-> "",
              s |-> join("\n" \o sep_of(zettel_format) \o "\n\n\n", kept)]

\* zettels_to_str(zettels, zettel_format, headings): [ok, s, err]
zettels_to_str(zettels, zettel_format, headings) ==
    LET text == [i \in 1..Len(zettels) |-> encode(zettels[i], zettel_format, headings)]
        kept == SelectSeq([i \in 1..Len(text) |-> text[i].s], LAMBDA x : x # "")
    IN  IF zettel_format \notin formats
        THEN [ok |-> FALSE, s |-> "", err |-> "ValueError"]
        ELSE IF \E i \in 1..Len(text) : ~text[i].ok
        THEN [ok |-> FALSE, s |-> "", err |-> "KeyError"]
        ELSE [ok |-> TRUE, err |-> "",
              s |-> join("\n" \o sep_of(zettel_format) \o "\n\n\n", sorted(kept))]

\* The for loop of get_zettels_from_md / get_zettels_from_rst: the first chunk
\* that fails to decode raises, and nothing is returned.
RECURSIVE append_each(_, _, _)
\* zettels.append(r) for the decoded r, then the rest of the loop.
append_to(zettels, r, texts, zettel_format) ==
    IF r.ok THEN append_each(texts, zettel_format, Append(zettels, r.z))
    ELSE [ok |-> FALSE, zs |-> <<>>, err |-> r.err]

append_each(texts, zettel_format, zettels) ==
    IF Len(texts) = 0 THEN [ok |-> TRUE, zs |-> zettels, err |-> ""]
    ELSE append_to(zettels, decode(Head(texts), zettel_format),
                   Tail(texts), zettel_format)

\* get_zettels_from without texts.pop(): the empty chunk after a terminal
\* sentinel is decoded like any other.
get_zettels_from_no_pop(text, zettel_format) ==
    LET t == strip(text)
    IN  IF t = "" THEN [ok |-> TRUE, zs |-> <<>>, err |-> ""]
        ELSE append_each(split(t, sep_of(zettel_format)), zettel_format, <<>>)

\* get_zettels_from_md / get_zettels_from_rst, for text that is not the name
\* of an existing file: [ok, zs, err].
get_zettels_from(text, zettel_format) ==
    LET t == strip(text)
        texts == split(t, sep_of(zettel_format))
    IN  IF t = "" THEN [ok |-> TRUE, zs |-> <<>>, err |-> ""]
        ELSE append_each(IF texts[Len(texts)] = ""
                         THEN SubSeq(texts, 1, Len(texts) - 1) ELSE texts,
                         zettel_format, <<>>)

get_zettels_from_md(md) == get_zettels_from(md, "md")

get_zettels_from_rst(rst) == get_zettels_from(rst, "rst")

\* str_to_zettels(text, zettel_format)
str_to_zettels(text, zettel_format) ==
    IF zettel_format = "rst" THEN get_zettels_from_rst(text)
    ELSE IF zettel_format = "md" THEN get_zettels_from_md(text)
    ELSE [ok |-> TRUE, zs |-> <<>>, err |-> ""]

-----------------------------------------------------------------------------
(* editing.py, over a file system. fs maps the path of every regular file  *)
(* to its text; Dirs are the directories, which no function of editing.py  *)
(* creates or removes. A function that touches files returns               *)
(* [ok, err, fs, zs, out]: the file system and the caller's Zettels as it  *)
(* leaves them, and the list it returns.                                   *)

Dirs == {"a", "b"}

\* The index of the last "/" of path, 0 if it has none.
last_slash(path) ==
    LET at == {i \in 1..Len(path) : Ch(path, i) = "/"}
    IN  IF at = {} THEN 0 ELSE CHOOSE i \in at : \A j \in at : j <= i

\* os.path.dirname / os.path.basename
dirname(path) == SubSeq(path, 1, last_slash(path) - 1)

basename(path) == SubSeq(path, last_slash(path) + 1, Len(path))

\* open(path, 'w') can create or truncate the file: path is no directory and
\* lies in an existing one (a bare name lies in the working directory).
writable(path) == path # "" /\ path \notin Dirs /\ dirname(path) \in Dirs \cup {""}

\* f.write(text) into the file at path, created or truncated by open.
written(fs, path, text) ==
    [q \in DOMAIN fs \cup {path} |-> IF q = path THEN text ELSE fs[q]]

\* os.remove(path) for a file that exists.
removed(fs, path) == [q \in DOMAIN fs \ {path} |-> fs[q]]

\* The path shutil.copy(src, dest) writes to: into dest when it is a directory.
copy_target(src, dest) ==
    IF dest \in Dirs THEN dest \o "/" \o basename(src) ELSE dest

\* any(['_loadpath' not in z.attrs for z in zettels])
missing_loadpath(zettels) ==
    \E i \in 1..Len(zettels) : ~dict_has(zettels[i].attrs, "_loadpath")

\* z as it is, its _loadpath not deleted.
keep_loadpath(z) == z

\* z with del(z.attrs['_loadpath'])
without_loadpath(z) == [z EXCEPT !.attrs = dict_del(@, "_loadpath")]

\* z with z.attrs['_loadpath'] = loadpath
with_loadpath(z, loadpath) ==
    [z EXCEPT !.attrs = Attributes_setitem(@, "_loadpath", loadpath).d]

Failed(err, fs, zettels) ==
    [ok |-> FALSE, err |-> err, fs |-> fs, zs |-> zettels, out |-> <<>>]

Done(fs, zettels, out) ==
    [ok |-> TRUE, err |-> "", fs |-> fs, zs |-> zettels, out |-> out]

\* The for loop of save_zettels from the i-th Zettel on. The body of the
\* loop, save_one, is given the path and the text zettels_to_str makes of the
\* Zettel without its _loadpath; open truncates the file before the text is
\* made, and the finally clause puts _loadpath back whatever happened.
RECURSIVE save_each(_, _, _, _)
save_one(fs, zettels, i, zettel_format, loadpath, text) ==
    IF ~writable(loadpath)
    THEN Failed("OSError", fs,
                [zettels EXCEPT ![i] = with_loadpath(without_loadpath(@), V_str(loadpath))])
    ELSE IF ~text.ok
    THEN Failed(text.err, written(fs, loadpath, ""),
                [zettels EXCEPT ![i] = with_loadpath(without_loadpath(@), V_str(loadpath))])
    ELSE save_each(written(fs, loadpath, text.s),
                   [zettels EXCEPT ![i] = with_loadpath(without_loadpath(@), V_str(loadpath))],
                   i + 1, zettel_format)

save_each(fs, zettels, i, zettel_format) ==
    IF i > Len(zettels) THEN Done(fs, zettels, zettels)
    ELSE save_one(fs, zettels, i, zettel_format,
                  dict_get(zettels[i].attrs, "_loadpath").v,
                  zettels_to_str(<<without_loadpath(zettels[i])>>, zettel_format, <<>>))

\* save_zettels(zettels, zettel_format)
save_zettels(fs, zettels, zettel_format) ==
    IF missing_loadpath(zettels) THEN Failed("KeyError", fs, zettels)
    ELSE save_each(fs, zettels, 1, zettel_format)

\* [os.remove(z.attrs['_loadpath']) for z in zettels] from the i-th on
RECURSIVE remove_each(_, _, _)
remove_each(fs, zettels, i) ==
    IF i > Len(zettels) THEN Done(fs, zettels, <<>>)
    ELSE IF dict_get(zettels[i].attrs, "_loadpath").v \notin DOMAIN fs
    THEN Failed("OSError", fs, zettels)
    ELSE remove_each(removed(fs, dict_get(zettels[i].attrs, "_loadpath").v),
                     zettels, i + 1)

\* delete_zettels looking for _loadpath only as it comes to each Zettel: the
\* files of the Zettels before the one without are removed already.
RECURSIVE remove_lazily(_, _, _)
remove_lazily(fs, zettels, i) ==
    IF i > Len(zettels) THEN Done(fs, zettels, <<>>)
    ELSE IF ~dict_has(zettels[i].attrs, "_loadpath") THEN Failed("KeyError", fs, zettels)
    ELSE IF dict_get(zettels[i].attrs, "_loadpath").v \notin DOMAIN fs
    THEN Failed("OSError", fs, zettels)
    ELSE remove_lazily(removed(fs, dict_get(zettels[i].attrs, "_loadpath").v),
                       zettels, i + 1)

delete_zettels_lazy(fs, zettels) == remove_lazily(fs, zettels, 1)

\* delete_zettels(zettels)
delete_zettels(fs, zettels) ==
    IF missing_loadpath(zettels) THEN Failed("KeyError", fs, zettels)
    ELSE remove_each(fs, zettels, 1)

\* _load_zettel(path, zettel_format) given r, what str_to_zettels made of the
\* file's text: [ok, err, z]. The first Zettel of the text is taken.
loaded(r, path) ==
    IF ~r.ok THEN [ok |-> FALSE, err |-> r.err, z |-> NoZettel]
    ELSE IF Len(r.zs) = 0 THEN [ok |-> FALSE, err |-> "IndexError", z |-> NoZettel]
    ELSE [ok |-> TRUE, err |-> "", z |-> with_loadpath(r.zs[1], V_str(path))]

_load_zettel(fs, path, zettel_format) ==
    loaded(str_to_zettels(fs[path], zettel_format), path)

\* load_zettels(paths, zettel_format) for a list of paths none of which is a
\* directory, from the i-th path on; zettels are the Zettels loaded so far.
RECURSIVE load_each(_, _, _, _, _)
load_next(fs, paths, i, zettel_format, zettels, l) ==
    IF ~l.ok THEN [ok |-> FALSE, err |-> l.err, out |-> <<>>]
    ELSE load_each(fs, paths, i + 1, zettel_format, Append(zettels, l.z))

load_each(fs, paths, i, zettel_format, zettels) ==
    IF i > Len(paths) THEN [ok |-> TRUE, err |-> "", out |-> zettels]
    ELSE IF paths[i] \notin DOMAIN fs
    THEN [ok |-> FALSE, err |-> "FileNotFoundError", out |-> <<>>]
    ELSE load_next(fs, paths, i, zettel_format, zettels,
                   _load_zettel(fs, paths[i], zettel_format))

load_zettels(fs, paths, zettel_format) == load_each(fs, paths, 1, zettel_format, <<>>)

\* [shutil.copy(z.attrs['_loadpath'], dest) for z in zettels] from the i-th
\* Zettel on: [ok, err, fs, paths]. A copy onto itself, of a missing file or
\* to a place that cannot be written raises; the copies made before stay.
RECURSIVE copy_each(_, _, _, _, _)
copy_one(fs, zettels, dest, i, newzets, src, dst) ==
    IF src \notin DOMAIN fs \/ src = dst \/ ~writable(dst)
    THEN [ok |-> FALSE, err |-> "OSError", fs |-> fs, paths |-> <<>>]
    ELSE copy_each(written(fs, dst, fs[src]), zettels, dest, i + 1,
                   Append(newzets, dst))

copy_each(fs, zettels, dest, i, newzets) ==
    IF i > Len(zettels) THEN [ok |-> TRUE, err |-> "", fs |-> fs, paths |-> newzets]
    ELSE copy_one(fs, zettels, dest, i, newzets,
                  dict_get(zettels[i].attrs, "_loadpath").v,
                  copy_target(dict_get(zettels[i].attrs, "_loadpath").v, dest))

\* copy_zettels after its check: sv is what save_zettels did, cp what the
\* copies did, ld what load_zettels returned.
copy_loaded(sv, cp, ld) ==
    IF ~ld.ok THEN Failed(ld.err, cp.fs, sv.zs) ELSE Done(cp.fs, sv.zs, ld.out)

copy_copied(sv, cp, zettel_format) ==
    IF ~cp.ok THEN Failed(cp.err, cp.fs, sv.zs)
    ELSE copy_loaded(sv, cp, load_zettels(cp.fs, cp.paths, zettel_format))

copy_saved(sv, dest, zettel_format) ==
    IF ~sv.ok THEN sv
    ELSE copy_copied(sv, copy_each(sv.fs, sv.zs, dest, 1, <<>>), zettel_format)

\* copy_zettels(zettels, dest, zettel_format)
copy_zettels(fs, zettels, dest, zettel_format) ==
    IF missing_loadpath(zettels) THEN Failed("KeyError", fs, zettels)
    ELSE copy_saved(save_zettels(fs, zettels, zettel_format), dest, zettel_format)

\* move_zettels after copy_zettels returned c and delete_zettels d.
move_deleted(c, d) ==
    IF ~d.ok THEN Failed(d.err, d.fs, d.zs) ELSE Done(d.fs, d.zs, c.out)

move_copied(c) == IF ~c.ok THEN c ELSE move_deleted(c, delete_zettels(c.fs, c.zs))

\* move_zettels(zettels, dest, zettel_format)
move_zettels(fs, zettels, dest, zettel_format) ==
    move_copied(copy_zettels(fs, zettels, dest, zettel_format))

\* The place in zettels of the Zettel that the dict
\* {z.attrs['_loadpath']: z for z in zettels} holds under path: the last one
\* with that _loadpath, 0 if there is none.
orig_at(zettels, path) ==
    LET at == {i \in 1..Len(zettels) : dict_get(zettels[i].attrs, "_loadpath") = path}
    IN  IF at = {} THEN 0 ELSE CHOOSE i \in at : \A j \in at : j <= i

\* The places of the values of that dict, in the order of its keys: a key
\* stands where it was first inserted.
orig_values(zettels) ==
    LET firsts == SelectSeq([i \in 1..Len(zettels) |-> i],
                      LAMBDA i : \A j \in 1..(i - 1) :
                          dict_get(zettels[j].attrs, "_loadpath")
                              # dict_get(zettels[i].attrs, "_loadpath"))
    IN  [n \in 1..Len(firsts) |->
            orig_at(zettels, dict_get(zettels[firsts[n]].attrs, "_loadpath"))]

\* d.setdefault(h, '') for every h of headings
RECURSIVE setdefaults(_, _)
setdefaults(d, headings) ==
    IF Len(headings) = 0 THEN d
    ELSE setdefaults(IF dict_has(d, Head(headings)) THEN d
                     ELSE dict_set(d, Head(headings), ""),
                     Tail(headings))

\* [z.headings.setdefault(h, '') for z in orig.values() for h in headings]
with_defaults(zettels, headings) ==
    [i \in 1..Len(zettels) |->
        IF \E n \in 1..Len(orig_values(zettels)) : orig_values(zettels)[n] = i
        THEN [zettels[i] EXCEPT !.headings = setdefaults(@, headings)]
        ELSE zettels[i]]

\* self after self.update(new_zettel, exp_headings), for two Zettels that are
\* different objects with different heading maps.
update_result(r) == [r.z EXCEPT !.headings = r.heap[r.z.headings]]

update_of(self, new_zettel, exp_headings) ==
    update_result(Zettel_update([self EXCEPT !.headings = 1],
                                [new_zettel EXCEPT !.headings = 2],
                                exp_headings,
                                <<self.headings, new_zettel.headings>>, FALSE))

\* A list `modified` that takes every document for a new Zettel: no original
\* is updated.
modified_all_new(zettels, updates, headings) ==
    [n \in 1..Len(orig_values(updates)) |->
        [at |-> 0, z |-> updates[orig_values(updates)[n]]]]

\* The list `modified` of edit_zettels: for every key of updates, the
\* original with that _loadpath, updated in place, or else the new Zettel.
\* Each entry is [at, z]: at is the place of the original in zettels, 0 for
\* a new Zettel.
modified_of(zettels, updates, headings) ==
    LET keys == orig_values(updates)
    IN  [n \in 1..Len(keys) |->
            IF orig_at(zettels, dict_get(updates[keys[n]].attrs, "_loadpath")) > 0
            THEN [at |-> orig_at(zettels, dict_get(updates[keys[n]].attrs, "_loadpath")),
                  z |-> update_of(
                          zettels[orig_at(zettels,
                                          dict_get(updates[keys[n]].attrs, "_loadpath"))],
                          updates[keys[n]], headings)]
            ELSE [at |-> 0, z |-> updates[keys[n]]]]

\* The list `deleted` of edit_zettels: the originals whose _loadpath is no
\* key of updates.
deleted_of(zettels, updates) ==
    LET vals == orig_values(zettels)
        rest == SelectSeq(vals, LAMBDA i :
                    orig_at(updates, dict_get(zettels[i].attrs, "_loadpath")) = 0)
    IN  [n \in 1..Len(rest) |-> zettels[rest[n]]]

\* The caller's Zettels once the originals among modified are as in saved.
put_back(zettels, modified, saved) ==
    [i \in 1..Len(zettels) |->
        IF \E n \in 1..Len(modified) : modified[n].at = i
        THEN saved[CHOOSE n \in 1..Len(modified) : modified[n].at = i]
        ELSE zettels[i]]

\* edit_zettels from save_zettels(modified) on: sv is what it did.
edit_deleted(zettels, modified, sv, dl) ==
    IF ~dl.ok THEN Failed(dl.err, dl.fs, put_back(zettels, modified, sv.zs))
    ELSE Done(dl.fs, put_back(zettels, modified, sv.zs), sv.zs)

edit_saved(zettels, modified, deleted, sv, delete) ==
    IF ~sv.ok THEN Failed(sv.err, sv.fs, put_back(zettels, modified, sv.zs))
    ELSE IF delete THEN edit_deleted(zettels, modified, sv, delete_zettels(sv.fs, deleted))
    ELSE Done(sv.fs, put_back(zettels, modified, sv.zs), sv.zs)

edit_modified(fs, zettels, modified, deleted, zettel_format, delete) ==
    edit_saved(zettels, modified, deleted,
               save_zettels(fs, [n \in 1..Len(modified) |-> modified[n].z], zettel_format),
               delete)

\* edit_zettels from the parse-back on: updates is what str_to_zettels made
\* of the edited text. errlog is '' and nothing is logged.
edit_parsed(fs, zettels, updates, zettel_format, headings, delete) ==
    IF ~updates.ok THEN Failed(updates.err, fs, zettels)
    ELSE IF missing_loadpath(updates.zs) THEN Failed("ValueError", fs, zettels)
    ELSE edit_modified(fs, zettels, modified_of(zettels, updates.zs, headings),
                       deleted_of(zettels, updates.zs), zettel_format, delete)

\* s.replace(old, new)
replace(s, old, new) == join(new, split(s, old))

\* What the user can do with one document of the text in the editor: leave
\* it, delete it, change its body, write another directory into its
\* _loadpath, delete its _loadpath line, or copy the document.
EditOps == {"keep", "drop", "change", "repath", "unpath", "twice"}

\* The documents the user makes of one document.
edited_doc(doc, op) ==
    CASE op = "drop" -> <<>>
      [] op = "change" -> <<replace(doc, "text", "edited")>>
      [] op = "repath" -> <<replace(doc, "_loadpath: a/", "_loadpath: b/")>>
      [] op = "unpath" ->
            <<join("\n", SelectSeq(split(doc, "\n"),
                                   LAMBDA l : ~contains(l, "_loadpath:")))>>
      [] op = "twice" -> <<doc, doc>>
      [] OTHER -> <<doc>>

RECURSIVE edited_docs(_, _)
edited_docs(texts, user) ==
    IF Len(texts) = 0 THEN <<>>
    ELSE edited_doc(Head(texts), IF Len(user) = 0 THEN "keep" ELSE Head(user))
         \o edited_docs(Tail(texts), IF Len(user) = 0 THEN user ELSE Tail(user))

\* edit(s): the text read back from the editor, user being what the user did
\* with the documents of s, one after the other.
edit(s, zettel_format, user) ==
    join("\n" \o sep_of(zettel_format) \o "\n\n\n",
         edited_docs(IF s = "" THEN <<>>
                     ELSE split(s, "\n" \o sep_of(zettel_format) \o "\n\n\n"),
                     user))

\* edit_zettels once zettels_to_str has made the text s of the Zettels.
edit_shown(fs, zettels, zettel_format, headings, user, delete, s) ==
    IF ~s.ok THEN Failed(s.err, fs, zettels)
    ELSE edit_parsed(fs, zettels,
                     str_to_zettels(edit(s.s, zettel_format, user), zettel_format),
                     zettel_format, headings, delete)

edit_defaulted(fs, zettels, zettel_format, headings, user, delete) ==
    edit_shown(fs, zettels, zettel_format, headings, user, delete,
               zettels_to_str(zettels, zettel_format, headings))

\* edit_zettels(zettels, zettel_format, headings, '', delete)
edit_zettels(fs, zettels, zettel_format, headings, user, delete) ==
    IF missing_loadpath(zettels) THEN Failed("ValueError", fs, zettels)
    ELSE edit_defaulted(fs, with_defaults(zettels, headings), zettel_format,
                        headings, user, delete)

-----------------------------------------------------------------------------
(* Inputs.                                                                 *)

\* The most headings of a Zettel handed to the constructor.
MaxHeadings == 2

Titles == {"", "my title"}

HeadingNames == {"_notes", "Heading", "heading"}

Bodies == {"text", "\ncontent\n"}

\* The ordered dicts of at most n entries with keys from ks and values from vs.
RECURSIVE dicts(_, _, _)
dicts(ks, vs, n) ==
    IF n = 0 THEN {<<>>}
    ELSE LET shorter == dicts(ks, vs, n - 1)
         IN  shorter \cup
             { Append(d, [k |-> k, v |-> v]) :
                 d \in {e \in shorter : Len(e) = n - 1}, k \in ks, v \in vs }

HeadingMaps ==
    { d \in dicts(HeadingNames, Bodies, MaxHeadings) :
        \A i, j \in 1..Len(d) : i # j => d[i].k # d[j].k }

\* The attrs argument of the constructor.
AttrArgs ==
    { <<>>,
      <<[k |-> "greeting", v |-> V_str("hello")]>>,
      <<[k |-> "zlinks", v |-> V_dict],
        [k |-> "due_date", v |-> V_str("next wednesday")],
        [k |-> "creation_date", v |-> V_str("2022-04-19, Tue")]>> }

\* What a decoder hands back, as a list of Zettels.
Decoded(r) == [ok |-> r.ok, zs |-> IF r.ok THEN <<r.z>> ELSE <<>>, err |-> r.err]

Nothing == [ok |-> TRUE, zs |-> <<>>, err |-> ""]

\* The variables of the Attributes scenario, unused by the codec scenarios.
attr_vars == <<amap, assigned, got, before>>

\* What the last operation on the Attributes instance was and gave.
NoOp == [op |-> "none", key |-> "", val |-> V_none, ok |-> TRUE, cmp |-> {}]

AttrIdle ==
    /\ amap = <<>>
    /\ assigned = <<>>
    /\ got = NoOp
    /\ before = <<>>

\* The variables of the Zettel objects, unused by the other scenarios.
obj_vars == <<held, heap, origin, call>>

\* The caller's variables that can hold a Zettel.
Names == {"z", "n"}

\* A variable that holds no Zettel yet; a Zettel's headings field is the
\* place of its heading map in heap, from 1.
NoObject == [title |-> "", headings |-> 0, attrs |-> <<>>]

NoOrigin == [kind |-> "none", attrs |-> <<>>, text |-> ""]

\* No update call yet. A call x.update(y, exp_headings) is recorded with the
\* Zettels x and y held and the heading maps as they were when it began, and
\* with the changes the caller made to heading maps since (later).
NoCall == [x |-> "", y |-> "", exp_headings |-> <<>>, ok |-> TRUE,
           held |-> [v \in Names |-> NoObject], heap |-> <<>>, later |-> <<>>]

ObjIdle ==
    /\ held = [x \in Names |-> NoObject]
    /\ heap = <<>>
    /\ origin = [x \in Names |-> NoOrigin]
    /\ call = NoCall

\* The variables of the file scenario, unused by the others.
file_vars == <<files, ret>>

NoFiles == [q \in {} |-> ""]

\* No call of editing.py yet. A call is recorded with its arguments, with
\* the files and the Zettels as they were when it began, and with what it
\* returned (out) or raised (err).
NoReturn ==
    [op |-> "none", ok |-> TRUE, err |-> "", out |-> <<>>, files |-> NoFiles,
     zettels |-> <<>>, dest |-> "", headings |-> <<>>, user |-> <<>>,
     delete |-> FALSE]

FilesIdle ==
    /\ files = NoFiles
    /\ ret = NoReturn

\* The variables of the codec scenarios, unused by the others.
text_vars == <<fmt, zin, txt, enc, zout, txt2, docs>>

TextIdle ==
    /\ fmt = "md"
    /\ zin = <<>>
    /\ txt = ""
    /\ enc = ""
    /\ zout = Nothing
    /\ txt2 = ""
    /\ docs = <<>>

-----------------------------------------------------------------------------
(* The codec scenario: a Zettel is built by the constructor, encoded with  *)
(* no heading filter, possibly followed by blank characters, decoded, and  *)
(* encoded again.                                                          *)

TrailingBlanks == {"\n", "  ", "\n \n\n"}

CodecInit ==
    /\ pc = "built"
    /\ fmt \in formats
    /\ \E t \in Titles, h \in HeadingMaps, a \in AttrArgs :
          zin = <<Zettel_init(t, h, a).z>>
    /\ txt = ""
    /\ enc = ""
    /\ zout = Nothing
    /\ txt2 = ""
    /\ docs = <<>>
    /\ AttrIdle
    /\ ObjIdle
    /\ FilesIdle
    /\ filter = <<>>

Encode ==
    /\ pc = "built"
    /\ LET r == encode(zin[1], fmt, <<>>)
       IN  /\ pc' = IF r.ok THEN "encoded" ELSE "raised"
           /\ txt' = r.s
           /\ enc' = r.s
    /\ UNCHANGED <<fmt, zin, zout, txt2, docs, attr_vars, obj_vars, file_vars, filter>>

Pad ==
    /\ pc = "encoded"
    /\ \E ws \in TrailingBlanks :
          /\ txt' = enc \o ws
          /\ pc' = "padded"
    /\ UNCHANGED <<fmt, zin, enc, zout, txt2, docs, attr_vars, obj_vars, file_vars, filter>>

Decode ==
    /\ pc \in {"encoded", "padded"}
    /\ zout' = Decoded(decode(txt, fmt))
    /\ pc' = "decoded"
    /\ UNCHANGED <<fmt, zin, txt, enc, txt2, docs, attr_vars, obj_vars, file_vars, filter>>

Reencode ==
    /\ pc = "decoded"
    /\ zout.ok
    /\ LET r == encode(zout.zs[1], fmt, <<>>)
       IN  /\ pc' = IF r.ok THEN "reencoded" ELSE "raised"
           /\ txt2' = r.s
    /\ UNCHANGED <<fmt, zin, txt, enc, zout, docs, attr_vars, obj_vars, file_vars, filter>>

CodecNext == Encode \/ Pad \/ Decode \/ Reencode

SpecCodec == CodecInit /\ [][CodecNext]_vars

-----------------------------------------------------------------------------
(* The pack scenario: a list of Zettels is packed into one text, which is  *)
(* unpacked again; or the list is reordered and packed a second time.      *)

\* The most Zettels in a list handed to zettels_to_str.
MaxPack == 3

PackZettels ==
    { Zettel_init("a", <<[k |-> "_notes", v |-> "text"]>>, <<>>).z,
      Zettel_init("b", <<[k |-> "Heading", v |-> "text"]>>, <<>>).z,
      Zettel_init("", <<[k |-> "_notes", v |-> "text"], [k |-> "Heading", v |-> ""]>>,
                  <<[k |-> "greeting", v |-> V_str("hello")]>>).z,
      Zettel_init("", <<[k |-> "_notes", v |-> "\ncontent\n"]>>, <<>>).z,
      Zettel_init("c", <<[k |-> "Heading", v |-> "text"],
                         [k |-> "heading", v |-> "more"]>>, <<>>).z }

\* The lists of at most n items of S.
lists(S, n) == UNION {[1..k -> S] : k \in 0..n}

PackInit ==
    /\ pc = "built"
    /\ fmt \in formats
    /\ zin \in lists(PackZettels, MaxPack)
    /\ txt = ""
    /\ enc = ""
    /\ zout = Nothing
    /\ txt2 = ""
    /\ docs = <<>>
    /\ AttrIdle
    /\ ObjIdle
    /\ FilesIdle
    /\ filter = <<>>

Pack ==
    /\ pc = "built"
    /\ LET r == zettels_to_str(zin, fmt, <<>>)
       IN  /\ pc' = IF r.ok THEN "packed" ELSE "raised"
           /\ txt' = r.s
           /\ enc' = r.s
    /\ UNCHANGED <<fmt, zin, zout, txt2, docs, attr_vars, obj_vars, file_vars, filter>>

\* The caller hands over the same Zettels in another order.
Permute ==
    /\ pc \in {"packed", "permuted"}
    /\ \E i \in 1..(Len(zin) - 1) :
          zin' = [zin EXCEPT ![i] = zin[i + 1], ![i + 1] = zin[i]]
    /\ pc' = "permuted"
    /\ UNCHANGED <<fmt, txt, enc, zout, txt2, docs, attr_vars, obj_vars, file_vars, filter>>

Repack ==
    /\ pc = "permuted"
    /\ LET r == zettels_to_str(zin, fmt, <<>>)
       IN  /\ pc' = IF r.ok THEN "repacked" ELSE "raised"
           /\ txt2' = r.s
    /\ UNCHANGED <<fmt, zin, txt, enc, zout, docs, attr_vars, obj_vars, file_vars, filter>>

Unpack ==
    /\ pc = "packed"
    /\ zout' = str_to_zettels(txt, fmt)
    /\ pc' = "unpacked"
    /\ UNCHANGED <<fmt, zin, txt, enc, txt2, docs, attr_vars, obj_vars, file_vars, filter>>

PackNext == Pack \/ Permute \/ Repack \/ Unpack

SpecPack == PackInit /\ [][PackNext]_vars

-----------------------------------------------------------------------------
(* The unpack scenario: a text joined from documents with the sentinel,    *)
(* as zettels_to_str joins them, possibly ended by a sentinel or blank     *)
(* characters, is unpacked.                                                *)

\* The most documents joined into a text handed to the unpack functions.
MaxDocs == 3

MdDocs ==
    { "# a\ntext\n<!--- attributes --->\n    ---\n    greeting: hello\n",
      "just content",
      "# b\n<!--- attributes --->\n    ---\n    greeting: [\n",
      "## h\n<!--- attributes --->\n    ---\n    due_date: not a date\n",
      " \n" }

RstDocs ==
    { "===\n a\n===\ntext\n.. attributes\n::\n\n    ---\n    greeting: hello\n",
      "just content",
      "h\n=\n.. attributes\n::\n\n    ---\n    greeting: [\n",
      " \n" }

docs_of(zettel_format) == IF zettel_format = "rst" THEN RstDocs ELSE MdDocs

\* What zettels_to_str puts between two documents.
joiner(zettel_format) == "\n" \o sep_of(zettel_format) \o "\n\n\n"

\* What may follow the last document.
tails(zettel_format) ==
    {"", "\n", "\n" \o sep_of(zettel_format), "\n" \o sep_of(zettel_format) \o "\n \n"}

UnpackInit ==
    /\ pc = "text"
    /\ fmt \in formats
    /\ docs \in lists(docs_of(fmt), MaxDocs)
    /\ \E tail \in tails(fmt) : txt = join(joiner(fmt), docs) \o tail
    /\ zin = <<>>
    /\ enc = ""
    /\ zout = Nothing
    /\ txt2 = ""
    /\ AttrIdle
    /\ ObjIdle
    /\ FilesIdle
    /\ filter = <<>>

UnpackText ==
    /\ pc = "text"
    /\ zout' = (IF fmt = "rst" THEN get_zettels_from_rst(txt)
                ELSE get_zettels_from_md(txt))
    /\ pc' = "unpacked"
    /\ UNCHANGED <<fmt, zin, txt, enc, txt2, docs, attr_vars, obj_vars, file_vars, filter>>

SpecUnpack == UnpackInit /\ [][UnpackText]_vars

-----------------------------------------------------------------------------
(* The parse scenario: a Markdown text made of a few lines, with nothing   *)
(* for the decoder to trim at either end, is decoded.                      *)

\* The most lines of a text handed to createFromMd.
MaxLines == 3

MdLines ==
    { "# my title", "# ", "text", "", "## h", "  ## H ## 2", "## _notes",
      md_attr_header, "k: v" }

ParseInit ==
    /\ pc = "text"
    /\ fmt = "md"
    /\ docs \in lists(MdLines, MaxLines)
    /\ txt = join("\n", docs)
    /\ txt = strip(txt)
    /\ zin = <<>>
    /\ enc = ""
    /\ zout = Nothing
    /\ txt2 = ""
    /\ AttrIdle
    /\ ObjIdle
    /\ FilesIdle
    /\ filter = <<>>

ParseMd ==
    /\ pc = "text"
    /\ zout' = Decoded(createFromMd(txt))
    /\ pc' = "parsed"
    /\ UNCHANGED <<fmt, zin, txt, enc, txt2, docs, attr_vars, obj_vars, file_vars, filter>>

SpecParse == ParseInit /\ [][ParseMd]_vars

-----------------------------------------------------------------------------
(* The RST parse scenario: a text made of a few lines, with or without an  *)
(* attribute block behind them, is decoded by createFromRst.               *)

\* The most lines in a text handed to createFromRst.
MaxRstLines == 5

\* Rule lines, bare and with text between the signs, and lines that are not.
RstLines == { "=", " = b =", "text", "", "h" }

\* What follows the lines: nothing, or the attribute header and a block.
RstTails == { "", "\n" \o rst_attr_header \o "\n\n    greeting: hello" }

ParseRstInit ==
    /\ pc = "text"
    /\ fmt = "rst"
    /\ docs \in lists(RstLines, MaxRstLines)
    /\ txt \in { join("\n", docs) \o tail : tail \in RstTails }
    /\ txt = strip(txt)
    /\ zin = <<>>
    /\ enc = ""
    /\ zout = Nothing
    /\ txt2 = ""
    /\ AttrIdle
    /\ ObjIdle
    /\ FilesIdle
    /\ filter = <<>>

\* Zettel.createFromRst(txt)
ParseRst ==
    /\ pc = "text"
    /\ zout' = Decoded(createFromRst(txt))
    /\ pc' = "parsed"
    /\ UNCHANGED <<fmt, zin, txt, enc, txt2, docs, attr_vars, obj_vars, file_vars, filter>>

SpecParseRst == ParseRstInit /\ [][ParseRst]_vars

-----------------------------------------------------------------------------
(* The Attributes scenario: one Attributes instance is constructed, then   *)
(* items are assigned, merged and looked up, and a value looked up under a *)
(* key that is not set is compared.                                        *)

AttrKeys == {"greeting", "due_date", "event_begin"}

AttrValues ==
    { V_str("hello"), V_str("next wednesday"), V_str("not a date"), V_str(""),
      V_none }

\* The dicts handed to Attributes() and Attributes.update.
AttrDicts ==
    { <<>>,
      <<[k |-> "greeting", v |-> V_str("hello")]>>,
      <<[k |-> "due_date", v |-> V_str("next wednesday")],
        [k |-> "greeting", v |-> V_none]>>,
      <<[k |-> "event_begin", v |-> V_str("")],
        [k |-> "due_date", v |-> V_str("not a date")]>>,
      <<[k |-> "event_begin", v |-> V_str("today")]>> }

CmpOps == {"==", "!=", "<", ">", "<=", ">="}

\* NoCompare() <op> x and x <op> NoCompare(): no comparison holds.
NoCompare_compare(cmp_op, x) == FALSE

\* The items of other that Attributes.update stored before it returned or
\* raised.
RECURSIVE stored_items(_, _)
stored_items(self, other) ==
    IF Len(other) = 0 \/ ~Attributes_setitem(self, other[1].k, other[1].v).ok
    THEN <<>>
    ELSE <<other[1]>>
         \o stored_items(Attributes_setitem(self, other[1].k, other[1].v).d,
                         Tail(other))

AttrInit ==
    /\ pc = "attrs"
    /\ TextIdle
    /\ AttrIdle
    /\ ObjIdle
    /\ FilesIdle
    /\ filter = <<>>

\* a = Attributes(other); a keeps its old value when the constructor raises.
AttrConstruct ==
    /\ pc = "attrs"
    /\ \E other \in AttrDicts :
          /\ before' = amap
          /\ amap' = IF Attributes_init(other).ok THEN Attributes_init(other).d
                      ELSE amap
          /\ assigned' = IF Attributes_init(other).ok THEN dict_update(<<>>, other)
                          ELSE assigned
          /\ got' = [NoOp EXCEPT !.op = "init", !.ok = Attributes_init(other).ok]
    /\ UNCHANGED <<pc, text_vars, obj_vars, file_vars, filter>>

\* a[key] = val
AttrSetItem ==
    /\ pc = "attrs"
    /\ \E key \in AttrKeys, val \in AttrValues :
          /\ before' = amap
          /\ amap' = Attributes_setitem(amap, key, val).d
          /\ assigned' = IF Attributes_setitem(amap, key, val).ok
                          THEN dict_set(assigned, key, val) ELSE assigned
          /\ got' = [NoOp EXCEPT !.op = "set", !.key = key, !.val = val,
                                 !.ok = Attributes_setitem(amap, key, val).ok]
    /\ UNCHANGED <<pc, text_vars, obj_vars, file_vars, filter>>

\* a.update(other)
AttrUpdate ==
    /\ pc = "attrs"
    /\ \E other \in AttrDicts :
          /\ before' = amap
          /\ amap' = Attributes_update(amap, other).d
          /\ assigned' = dict_update(assigned, stored_items(amap, other))
          /\ got' = [NoOp EXCEPT !.op = "update",
                                 !.ok = Attributes_update(amap, other).ok]
    /\ UNCHANGED <<pc, text_vars, obj_vars, file_vars, filter>>

\* a[key]
AttrGetItem ==
    /\ pc = "attrs"
    /\ \E key \in AttrKeys :
          got' = [NoOp EXCEPT !.op = "get", !.key = key,
                             !.val = Attributes_getitem(amap, key)]
    /\ before' = amap
    /\ UNCHANGED <<pc, text_vars, amap, assigned, obj_vars, file_vars, filter>>

\* a[key] <op> x for each of the six operators, a[key] being a NoCompare.
AttrCompare ==
    /\ pc = "attrs"
    /\ got.op = "get"
    /\ got.val = NoCompare
    /\ \E x \in AttrValues :
          got' = [got EXCEPT !.op = "compare",
                    !.cmp = { o \in CmpOps : NoCompare_compare(o, x) }]
    /\ UNCHANGED <<pc, text_vars, amap, assigned, before, obj_vars, file_vars, filter>>

AttrNext ==
    AttrConstruct \/ AttrSetItem \/ AttrUpdate \/ AttrGetItem \/ AttrCompare

SpecAttrs == AttrInit /\ [][AttrNext]_vars

-----------------------------------------------------------------------------
(* The object scenario: the caller's variables z and n are bound to        *)
(* Zettels made by the constructor or by a decoder, and one Zettel is      *)
(* updated from another, or from itself.                                   *)

\* The most Zettels made in one run.
MaxObjects == 2

\* The arguments of the constructor: title, headings, attrs.
NewArgs ==
    { [title |-> "a", headings |-> <<>>, attrs |-> <<>>],
      [title |-> "b",
       headings |-> <<[k |-> "_notes", v |-> "text"], [k |-> "Heading", v |-> "text"]>>,
       attrs |-> <<[k |-> "zlinks", v |-> V_dict],
                   [k |-> "due_date", v |-> V_str("next wednesday")],
                   [k |-> "creation_date", v |-> V_str("2022-04-19, Tue")]>>],
      [title |-> "c",
       headings |-> <<[k |-> "Heading", v |-> "more"], [k |-> "h", v |-> "x"]>>,
       attrs |-> <<[k |-> "greeting", v |-> V_str("hello")]>>] }

\* The texts handed to a decoder.
ObjTexts ==
    { "", " \n",
      "just content\n<!--- attributes --->\n    creation_date: 2022-04-19\n",
      "h\n=\nbody\n.. attributes\n::\n\n    greeting: hello\n" }

\* The heading lists handed to Zettel.update as exp_headings.
ExpHeadings == { <<>>, <<"Heading">>, <<"h", "_notes">> }

ObjInit ==
    /\ pc = "objects"
    /\ TextIdle
    /\ AttrIdle
    /\ ObjIdle
    /\ FilesIdle
    /\ filter = <<>>

\* x is bound to the Zettel r.z that a constructor or decoder returned; kind
\* says which, supplied and text what it was given.
Bind(x, r, kind, supplied, text) ==
    /\ held' = [held EXCEPT ![x] = [title |-> r.z.title,
                                    headings |-> Len(heap) + 1,
                                    attrs |-> r.z.attrs]]
    /\ heap' = Append(heap, r.z.headings)
    /\ origin' = [origin EXCEPT ![x] = [kind |-> kind, attrs |-> supplied,
                                        text |-> text]]
    /\ call' = NoCall

\* x = Zettel(title, headings, attrs)
New ==
    /\ pc = "objects"
    /\ Len(heap) < MaxObjects
    /\ \E x \in Names, a \in NewArgs :
          \E r \in {Zettel_init(a.title, a.headings, a.attrs)} :
              r.ok /\ Bind(x, r, "init", a.attrs, "")
    /\ UNCHANGED <<pc, text_vars, attr_vars, file_vars, filter>>

\* x = Zettel.createFromMd(text)
FromMd ==
    /\ pc = "objects"
    /\ Len(heap) < MaxObjects
    /\ \E x \in Names, text \in ObjTexts :
          \E r \in {createFromMd(text)} :
              r.ok /\ Bind(x, r, "md", <<>>, text)
    /\ UNCHANGED <<pc, text_vars, attr_vars, file_vars, filter>>

\* x = Zettel.createFromRst(text)
FromRst ==
    /\ pc = "objects"
    /\ Len(heap) < MaxObjects
    /\ \E x \in Names, text \in ObjTexts :
          \E r \in {createFromRst(text)} :
              r.ok /\ Bind(x, r, "rst", <<>>, text)
    /\ UNCHANGED <<pc, text_vars, attr_vars, file_vars, filter>>

\* x.update(y, exp_headings), y being another variable or x itself
Update ==
    /\ pc = "objects"
    /\ \E x \in Names, y \in Names, exp_headings \in ExpHeadings :
          /\ held[x] # NoObject
          /\ held[y] # NoObject
          /\ \E r \in {Zettel_update(held[x], held[y], exp_headings, heap, x = y)} :
                /\ held' = [held EXCEPT ![x] = r.z]
                /\ heap' = r.heap
                /\ call' = [x |-> x, y |-> y, exp_headings |-> exp_headings,
                            ok |-> r.ok, held |-> held, heap |-> heap,
                            later |-> <<>>]
          /\ origin' = [origin EXCEPT ![x] = [NoOrigin EXCEPT !.kind = "updated"]]
    /\ UNCHANGED <<pc, text_vars, attr_vars, file_vars, filter>>

Next == New \/ FromMd \/ FromRst \/ Update

Spec == ObjInit /\ [][Next]_vars

-----------------------------------------------------------------------------
(* The sharing scenario: Zettels are made and updated from one another,    *)
(* then the caller adds, changes or deletes headings through one of them.  *)

\* The most changes the caller makes to heading maps after an update.
MaxChanges == 1

\* The headings the caller sets or deletes: one the Zettels have, one new.
ChangeKeys == {"Heading", "new"}

\* The caller changed the heading map of x: c is recorded behind the last
\* update call.
Changed(x, c, map) ==
    /\ heap' = [heap EXCEPT ![held[x].headings] = map]
    /\ call' = [call EXCEPT !.later = Append(@, c)]
    /\ pc' = "changed"
    /\ UNCHANGED <<held, origin, text_vars, attr_vars, file_vars, filter>>

\* x.headings[k] = 'changed'
SetHeading ==
    /\ pc \in {"objects", "changed"}
    /\ call.x # ""
    /\ Len(call.later) < MaxChanges
    /\ \E x \in {call.x, call.y}, k \in ChangeKeys :
          Changed(x, [op |-> "set", x |-> x, k |-> k],
                  dict_set(heap[held[x].headings], k, "changed"))

\* del x.headings[k], for a heading x has
DelHeading ==
    /\ pc \in {"objects", "changed"}
    /\ call.x # ""
    /\ Len(call.later) < MaxChanges
    /\ \E x \in {call.x, call.y}, k \in ChangeKeys :
          /\ dict_has(heap[held[x].headings], k)
          /\ Changed(x, [op |-> "del", x |-> x, k |-> k],
                     dict_del(heap[held[x].headings], k))

ShareNext == New \/ Update \/ SetHeading \/ DelHeading

SpecShare == ObjInit /\ [][ShareNext]_vars

-----------------------------------------------------------------------------
(* The text scenario: a Markdown text as the tests write it (a title line, *)
(* content, a heading, the attribute marker and an indented attribute      *)
(* block) is decoded and the Zettel is encoded again.                      *)

TextTitles == {"", "# my title\n"}

TextContents == {"", "content\n", "\ncontent\n\n", "\n\ncontent\n"}

TextSections == {"", "## heading 2\nheading2 text\n"}

\* The attribute blocks, as written under the marker.
TextBlocks ==
    { "    ---\n",
      "    ---\n    greeting: hello\n",
      "    ---\n    creation_date: 2022-04-19, Tue\n    greeting: hello\n    zlinks: {}\n" }

TextInputs ==
    { t \o c \o h \o md_attr_header \o "\n" \o b :
        t \in TextTitles, c \in TextContents, h \in TextSections, b \in TextBlocks }

TextInit ==
    /\ pc = "given"
    /\ fmt = "md"
    /\ txt \in TextInputs
    /\ zin = <<>>
    /\ enc = ""
    /\ zout = Nothing
    /\ txt2 = ""
    /\ docs = <<>>
    /\ AttrIdle
    /\ ObjIdle
    /\ FilesIdle
    /\ filter = <<>>

\* zettel = Zettel.createFromMd(text)
TextDecode ==
    /\ pc = "given"
    /\ zout' = Decoded(createFromMd(txt))
    /\ pc' = "taken"
    /\ UNCHANGED <<fmt, zin, txt, enc, txt2, docs, attr_vars, obj_vars, file_vars, filter>>

\* zettel.getMd()
TextEncode ==
    /\ pc = "taken"
    /\ zout.ok
    /\ \E r \in {getMd(zout.zs[1], <<>>)} :
          /\ pc' = IF r.ok THEN "given back" ELSE "raised"
          /\ txt2' = r.s
    /\ UNCHANGED <<fmt, zin, txt, enc, zout, docs, attr_vars, obj_vars, file_vars, filter>>

TextNext == TextDecode \/ TextEncode

SpecText == TextInit /\ [][TextNext]_vars

-----------------------------------------------------------------------------
(* The file scenario: the caller holds a list of Zettels, most of them     *)
(* with a _loadpath, over a file system that has old files at some of the  *)
(* paths or none, and calls one function of editing.py.                    *)

\* The most Zettels in a list handed to a function of editing.py.
MaxEdit == 2

\* The Zettels of the lists: two in directory a, one in b with the file name
\* of the first, one without _loadpath, one in a directory that is missing.
FileZettels ==
    { Zettel_init("t1", <<[k |-> "_notes", v |-> "text"]>>,
                  <<[k |-> "_loadpath", v |-> V_str("a/x.md")]>>).z,
      Zettel_init("t2", <<[k |-> "Heading", v |-> "text"], [k |-> "h", v |-> "more text"]>>,
                  <<[k |-> "greeting", v |-> V_str("hello")],
                    [k |-> "_loadpath", v |-> V_str("a/y.md")]>>).z,
      Zettel_init("", <<[k |-> "_notes", v |-> "\ntext\n"]>>,
                  <<[k |-> "_loadpath", v |-> V_str("b/x.md")]>>).z,
      Zettel_init("t4", <<[k |-> "_notes", v |-> "text"]>>, <<>>).z,
      Zettel_init("t5", <<>>, <<[k |-> "_loadpath", v |-> V_str("c/z.md")]>>).z }

\* The text of a file written some time before.
OldText == "# old\n<!--- attributes --->\n    ---\n    greeting: hi\n"

OldFiles == [q \in {"a/x.md", "a/y.md", "b/x.md"} |-> OldText]

\* The destinations of a copy or a move: a directory, a file in it, and the
\* directory two of the Zettels are in.
Dests == {"b", "b/new.md", "a"}

FileHeadings == {<<>>, <<"Heading">>}

FileInit ==
    /\ pc = "loaded"
    /\ fmt \in formats
    /\ zin \in lists(FileZettels, MaxEdit)
    /\ files \in {NoFiles, OldFiles}
    /\ ret = NoReturn
    /\ filter = <<>>
    /\ txt = ""
    /\ enc = ""
    /\ zout = Nothing
    /\ txt2 = ""
    /\ docs = <<>>
    /\ AttrIdle
    /\ ObjIdle

\* The call returned or raised r: the files and the caller's Zettels are as
\* it left them.
Return(r, op, dest, headings, user, delete) ==
    /\ pc' = "called"
    /\ files' = r.fs
    /\ zin' = r.zs
    /\ ret' = [op |-> op, ok |-> r.ok, err |-> r.err, out |-> r.out,
               files |-> files, zettels |-> zin, dest |-> dest,
               headings |-> headings, user |-> user, delete |-> delete]
    /\ UNCHANGED <<fmt, txt, enc, zout, txt2, docs, attr_vars, obj_vars, filter>>

\* save_zettels(zettels, zettel_format)
Save ==
    /\ pc = "loaded"
    /\ \E r \in {save_zettels(files, zin, fmt)} :
          Return(r, "save", "", <<>>, <<>>, FALSE)

\* delete_zettels(zettels)
Delete ==
    /\ pc = "loaded"
    /\ \E r \in {delete_zettels(files, zin)} :
          Return(r, "delete", "", <<>>, <<>>, FALSE)

\* copy_zettels(zettels, dest, zettel_format)
Copy ==
    /\ pc = "loaded"
    /\ \E dest \in Dests :
          \E r \in {copy_zettels(files, zin, dest, fmt)} :
              Return(r, "copy", dest, <<>>, <<>>, FALSE)

\* move_zettels(zettels, dest, zettel_format)
Move ==
    /\ pc = "loaded"
    /\ \E dest \in Dests :
          \E r \in {move_zettels(files, zin, dest, fmt)} :
              Return(r, "move", dest, <<>>, <<>>, FALSE)

\* edit_zettels(zettels, zettel_format, headings, '', delete), the user doing
\* one thing with each document of the text
Edit ==
    /\ pc = "loaded"
    /\ \E headings \in FileHeadings, delete \in BOOLEAN,
          user \in [1..Len(zin) -> EditOps] :
          \E r \in {edit_zettels(files, zin, fmt, headings, user, delete)} :
              Return(r, "edit", "", headings, user, delete)

FileNext == Save \/ Delete \/ Copy \/ Move \/ Edit

SpecFiles == FileInit /\ [][FileNext]_vars

-----------------------------------------------------------------------------
(* The display scenario: a Zettel the constructor built is displayed by    *)
(* getMd or getRst with a list of headings, or with none.                  *)

\* The most names in a headings argument.
MaxFilter == 2

\* Heading maps with and without _notes, with _notes not inserted first, with
\* an empty _notes, and with keys that differ only in letter case.
ShownZettels ==
    { Zettel_init("t", <<[k |-> "_notes", v |-> "text"],
                         [k |-> "Heading", v |-> "body"]>>, <<>>).z,
      Zettel_init("", <<[k |-> "Heading", v |-> "body"]>>, <<>>).z,
      Zettel_init("t", <<[k |-> "Heading", v |-> "body"],
                         [k |-> "_notes", v |-> "text"]>>, <<>>).z,
      Zettel_init("t", <<[k |-> "Heading", v |-> "body"],
                         [k |-> "heading", v |-> "more"]>>, <<>>).z,
      Zettel_init("", <<[k |-> "_notes", v |-> ""],
                        [k |-> "Other", v |-> "x"]>>, <<>>).z,
      Zettel_init("t", <<[k |-> "_notes", v |-> "text"],
                         [k |-> "Other", v |-> "x"],
                         [k |-> "Heading", v |-> "body"]>>, <<>>).z }

\* The names a caller asks for.
AskedNames == {"_notes", "Heading", "heading", "Other", "missing"}

ShowInit ==
    /\ pc = "made"
    /\ fmt \in formats
    /\ zin \in [1..1 -> ShownZettels]
    /\ txt = ""
    /\ enc = ""
    /\ zout = Nothing
    /\ txt2 = ""
    /\ docs = <<>>
    /\ AttrIdle
    /\ ObjIdle
    /\ FilesIdle
    /\ filter = <<>>

\* zettel.getMd(headings) or zettel.getRst(headings)
GetText ==
    /\ pc = "made"
    /\ \E headings \in lists(AskedNames, MaxFilter) :
          \E r \in {encode(zin[1], fmt, headings)} :
              /\ pc' = IF r.ok THEN "shown" ELSE "raised"
              /\ enc' = r.s
              /\ filter' = headings
    /\ UNCHANGED <<fmt, zin, txt, zout, txt2, docs, attr_vars, obj_vars, file_vars>>

ShowNext == GetText

SpecShow == ShowInit /\ [][ShowNext]_vars

-----------------------------------------------------------------------------
(* Claims.                                                                 *)

\* Two Zettels with the same title, the same headings in the same order and
\* equal attrs (attrs compare as dicts, whatever their order).
zettel_eq(a, b) ==
    /\ a.title = b.title
    /\ a.headings = b.headings
    /\ dict_eq(a.attrs, b.attrs)

\* C1: decoding the encoding of any Zettel the constructor built, with no
\* heading filter, gives a Zettel equal to it in title, heading map (keys,
\* bodies, key order) and attrs, in both dialects.
C1_RoundTrip ==
    (pc = "decoded" /\ txt = enc) =>
        /\ zout.ok
        /\ Len(zout.zs) = 1
        /\ zettel_eq(zout.zs[1], zin[1])

\* C2: for every text the encoder produced, followed or not by blank lines
\* or spaces, encoding its decoding gives the text the encoder produced.
C2_ReencodeFixpoint == pc = "reencoded" => txt2 = enc

\* The one-to-one maps of 1..n onto itself.
Perms(n) == { p \in [1..n -> 1..n] : \A i, j \in 1..n : p[i] = p[j] => i = j }

\* The text getMd / getRst gives for z with no heading filter.
rendered(z) == encode(z, fmt, <<>>).s

\* C3: unpacking the packing of a list of Zettels gives as many Zettels as
\* were packed, each equal to one input Zettel, every input appearing once,
\* in the order of the inputs' rendered text.
C3_PackRoundTrip ==
    pc = "unpacked" =>
        /\ zout.ok
        /\ Len(zout.zs) = Len(zin)
        /\ \E p \in Perms(Len(zin)) :
              /\ \A i \in 1..Len(zin) : zettel_eq(zout.zs[i], zin[p[i]])
              /\ \A i, j \in 1..Len(zin) :
                    i < j => ~str_lt(rendered(zin[p[j]]), rendered(zin[p[i]]))

\* The documents of a packed text, told apart by what zettels_to_str puts
\* between two of them.
packed_docs(text) == IF text = "" THEN <<>> ELSE split(text, joiner(fmt))

\* C4: packing gives the same text for the list in any order, and the
\* documents of that text are the rendered texts of the Zettels, each once,
\* in lexicographic order whatever the order of the list.
C4_PackDeterminism ==
    /\ pc = "repacked" => txt2 = enc
    /\ pc \in {"packed", "repacked"} =>
          LET d == packed_docs(IF pc = "packed" THEN txt ELSE txt2)
          IN  /\ Len(d) = Len(zin)
              /\ \E p \in Perms(Len(zin)) :
                    \A i \in 1..Len(zin) : d[i] = rendered(zin[p[i]])
              /\ \A i, j \in 1..Len(d) : i < j => ~str_lt(d[j], d[i])

\* A list was packed again in an order that is not the order of the
\* rendered texts, and gave the text of the first packing.
C4_Witness ==
    /\ pc = "repacked"
    /\ Len(zin) >= 2
    /\ str_lt(rendered(zin[2]), rendered(zin[1]))
    /\ txt2 = enc

\* Where the sentinel occurs in t.
sentinel_at(t) ==
    { i \in 1..Len(t) :
        /\ i + Len(sep_of(fmt)) - 1 <= Len(t)
        /\ SubSeq(t, i, i + Len(sep_of(fmt)) - 1) = sep_of(fmt) }

\* The chunk of t that starts at position s: up to the next sentinel or the
\* end of t.
chunk_from(t, s) ==
    LET later == { i \in sentinel_at(t) : i >= s }
    IN  SubSeq(t, s, IF later = {} THEN Len(t) ELSE least(later) - 1)

\* The sentinel-separated chunks of t in order: the k-th starts at the
\* beginning of t or behind a sentinel and has k - 1 sentinels before it.
chunks_of(t) ==
    LET starts == {1} \cup { i + Len(sep_of(fmt)) : i \in sentinel_at(t) }
    IN  [k \in 1..Cardinality(starts) |->
            chunk_from(t, CHOOSE s \in starts :
                Cardinality({ i \in sentinel_at(t) : i < s }) = k - 1)]

\* The chunks that are decoded: all of them, less one final empty chunk.
decoded_chunks(t) ==
    LET cs == chunks_of(t)
    IN  IF cs[Len(cs)] = "" THEN SubSeq(cs, 1, Len(cs) - 1) ELSE cs

\* C5, as stated: n documents that decode, joined by the sentinel into a
\* text that is not blank, give n Zettels.
C5_EveryDocument ==
    ( /\ pc = "unpacked"
      /\ Len(docs) > 0
      /\ strip(txt) # ""
      /\ \A i \in 1..Len(docs) : decode(docs[i], fmt).ok )
    => zout.ok /\ Len(zout.zs) = Len(docs)

\* C5, amended: a text that is empty after trimming gives the empty list;
\* any other text gives the decode of each of its sentinel-separated chunks,
\* in order, less one final empty chunk; if a chunk fails to decode the call
\* fails with that chunk's error and returns no Zettel; n documents that
\* decode, the last of them not blank, give n Zettels, the i-th being the
\* decode of the i-th document.
C5_Unpack ==
    pc = "unpacked" =>
        /\ strip(txt) = "" => zout = Nothing
        /\ strip(txt) # "" =>
              LET cs == decoded_chunks(strip(txt))
                  r == [i \in 1..Len(cs) |-> decode(cs[i], fmt)]
                  bad == { i \in 1..Len(cs) : ~r[i].ok }
              IN  IF bad = {}
                  THEN zout = [ok |-> TRUE, zs |-> [i \in 1..Len(cs) |-> r[i].z],
                               err |-> ""]
                  ELSE zout = [ok |-> FALSE, zs |-> <<>>, err |-> r[least(bad)].err]
        /\ ( /\ Len(docs) > 0
             /\ strip(docs[Len(docs)]) # ""
             /\ \A i \in 1..Len(docs) : decode(docs[i], fmt).ok )
           => /\ zout.ok
              /\ Len(zout.zs) = Len(docs)
              /\ \A i \in 1..Len(docs) : zout.zs[i] = decode(docs[i], fmt).z

\* Two documents whose text ends with a sentinel were unpacked into two
\* Zettels.
C5_Witness ==
    /\ pc = "unpacked"
    /\ Len(docs) = 2
    /\ endswith(strip(txt), sep_of(fmt))
    /\ zout.ok
    /\ Len(zout.zs) = 2

\* The lines of a text before its last attribute marker line; all of them
\* when it has none.
lines_before_marker(lines) ==
    LET at == { i \in 1..Len(lines) : lines[i] = md_attr_header }
    IN  IF at = {} THEN lines
        ELSE SubSeq(lines, 1, (CHOOSE i \in at : \A j \in at : j <= i) - 1)

\* The lines from a to b, newline-joined.
lines_joined(lines, a, b) == join("\n", SubSeq(lines, a, b))

\* C6: createFromMd takes as title the words behind `# ` of a first line that
\* starts with `# ` and removes that line; `_notes` is the lines before the
\* first `## ` line, left out when empty; every `## ` line gives one heading
\* whose body is the lines up to the next `## ` line or the end; the headings
\* are stored in the order of the text.
C6_MdDelimit ==
    (pc = "parsed" /\ zout.ok) =>
        LET body == lines_before_marker(docs)
            titled == Len(body) > 0 /\ startswith(body[1], "# ")
            rest == IF titled THEN Tail(body) ELSE body
            marks == { i \in 1..Len(rest) : startswith(lstrip(rest[i]), "## ") }
            upto(i) == LET later == { j \in marks : j > i }
                       IN  IF later = {} THEN Len(rest) ELSE least(later) - 1
            notes == lines_joined(rest, 1, upto(0))
            mark(k) == CHOOSE i \in marks :
                            Cardinality({ j \in marks : j < i }) = k - 1
            bodies == [k \in 1..Cardinality(marks) |->
                          lines_joined(rest, mark(k) + 1, upto(mark(k)))]
            stored == zout.zs[1].headings
        IN  /\ zout.zs[1].title =
                  IF titled THEN join(" ", Tail(words(body[1]))) ELSE ""
            /\ [i \in 1..Len(stored) |-> stored[i].v]
                  = (IF notes = "" THEN <<>> ELSE <<notes>>) \o bodies
            /\ notes # "" => stored[1].k = "_notes"

parsable(val) == val.t = "str" /\ \E w \in DateWords : w.s = val.v

C9_Absent ==
    ( /\ pc = "attrs"
      /\ got.op \in {"get", "compare"}
      /\ ~dict_has(before, got.key) )
    => /\ got.ok
       /\ got.val = NoCompare
       /\ amap = before
       /\ got.cmp = {}

\* A key that is not set in a map that holds other keys was looked up and
\* what it gave was compared.
C9_Witness ==
    /\ pc = "attrs"
    /\ got.op = "compare"
    /\ Len(amap) > 0
    /\ ~dict_has(amap, got.key)

\* C10: every Zettel a variable holds has creation_date and zlinks in its
\* attrs, after construction, after decoding and after any updates; a
\* constructed Zettel has creation_date today and zlinks empty when they
\* were not supplied, the supplied ones otherwise; the decode of blank text
\* has an empty title, no headings and just the two defaults.
C10_Defaults ==
    \A x \in Names :
        held[x] # NoObject =>
            /\ dict_has(held[x].attrs, "creation_date")
            /\ dict_has(held[x].attrs, "zlinks")
            /\ origin[x].kind = "init" =>
                  /\ IF dict_has(origin[x].attrs, "creation_date")
                     THEN \E w \in DateWords :
                            /\ w.s = dict_get(origin[x].attrs, "creation_date").v
                            /\ dict_get(held[x].attrs, "creation_date") = V_date(w.d)
                     ELSE dict_get(held[x].attrs, "creation_date") = V_date(Today)
                  /\ dict_get(held[x].attrs, "zlinks") = V_dict
            /\ (origin[x].kind \in {"md", "rst"} /\ strip(origin[x].text) = "") =>
                  /\ held[x].title = ""
                  /\ heap[held[x].headings] = <<>>
                  /\ dict_eq(held[x].attrs,
                             <<[k |-> "creation_date", v |-> V_date(Today)],
                               [k |-> "zlinks", v |-> V_dict]>>)

\* The keys of a dict, as a set.
key_set(d) == {d[i].k : i \in 1..Len(d)}

\* C11: after x.update(y, exp_headings), for any exp_headings, x has the
\* title y had, and its attrs are exactly the attrs y had when the call
\* began, except that creation_date has the value x had before the call; no
\* other key of x is left.
C11_UpdateAttrs ==
    (pc = "objects" /\ call.x # "") =>
        LET z == call.held[call.x]
            n == call.held[call.y]
        IN  /\ call.ok
            /\ held[call.x].title = n.title
            /\ key_set(held[call.x].attrs) = key_set(n.attrs) \cup {"creation_date"}
            /\ \A k \in key_set(n.attrs) \ {"creation_date"} :
                  dict_get(held[call.x].attrs, k) = dict_get(n.attrs, k)
            /\ dict_get(held[call.x].attrs, "creation_date")
                  = Attributes_getitem(z.attrs, "creation_date")

\* The names of a list, as a set.
listed(exp_headings) == {exp_headings[i] : i \in 1..Len(exp_headings)}

\* C12: after x.update(y, exp_headings) with a non-empty exp_headings, the
\* headings of x are the headings x had, without every listed name that y does
\* not have, overlaid with all headings of y: the headings kept stay in their
\* order with their bodies, the headings of y replace bodies or are added at
\* the end. With exp_headings empty, the headings of x are exactly those y had.
C12_Reconcile ==
    (pc = "objects" /\ call.x # "") =>
        LET mine == call.heap[call.held[call.x].headings]
            theirs == call.heap[call.held[call.y].headings]
            gone == listed(call.exp_headings) \ key_set(theirs)
        IN  heap[held[call.x].headings] =
                IF call.exp_headings = <<>> THEN theirs
                ELSE dict_update(SelectSeq(mine, LAMBDA e : e.k \notin gone), theirs)

\* An update with exp_headings that deleted a listed heading, kept a heading
\* that is neither listed nor in the other Zettel, and took one from it.
C12_Witness ==
    /\ pc = "objects"
    /\ call.x # ""
    /\ call.exp_headings # <<>>
    /\ LET mine == call.heap[call.held[call.x].headings]
           theirs == call.heap[call.held[call.y].headings]
       IN  /\ \E k \in key_set(mine) \cap listed(call.exp_headings) : k \notin key_set(theirs)
           /\ \E k \in key_set(mine) \ listed(call.exp_headings) : k \notin key_set(theirs)
           /\ theirs # <<>>

\* The index of the last line of lines that is the attribute marker of the
\* dialect, 0 if there is none.
marker_line(lines, zettel_format) ==
    LET at == {i \in 1..Len(lines) :
                 lines[i] = IF zettel_format = "md" THEN md_attr_header
                            ELSE ".. attributes"}
    IN  IF at = {} THEN 0 ELSE CHOOSE i \in at : \A j \in at : j <= i

\* The keys written in the attribute block of an encoded text, in the order
\* of their lines: a key line is indented by four blanks and holds `key:`.
block_keys(text, zettel_format) ==
    LET lines == splitlines(text)
        from == marker_line(lines, zettel_format)
        key_lines == SelectSeq(SubSeq(lines, from + 1, Len(lines)),
                               LAMBDA l : /\ startswith(l, "    ")
                                          /\ Len(l) > 4
                                          /\ Ch(l, 5) \notin Whitespace
                                          /\ contains(l, ":"))
    IN  [i \in 1..Len(key_lines) |->
            SubSeq(key_lines[i], 5, find(key_lines[i], ":", 1) - 1)]

\* A list of str in strictly ascending code point order.
ascending(ks) == \A i \in 1..(Len(ks) - 1) : str_lt(ks[i], ks[i + 1])

\* C13: the attribute block of an encoded Zettel lists exactly the Zettel's
\* attribute keys in ascending order, whatever order they were inserted in,
\* and the attrs of the Zettel decoded from the encoding iterate in that
\* order (both dialects).
C13_AttrSort ==
    /\ pc \in {"encoded", "padded", "decoded", "reencoded"} =>
          /\ marker_line(splitlines(enc), fmt) > 0
          /\ ascending(block_keys(enc, fmt))
          /\ listed(block_keys(enc, fmt)) = key_set(zin[1].attrs)
    /\ (pc \in {"decoded", "reencoded"} /\ zout.ok) =>
          /\ ascending(dict_keys(zout.zs[1].attrs))
          /\ dict_keys(zout.zs[1].attrs) = block_keys(enc, fmt)

\* A Zettel whose attrs were not inserted in key order, encoded and decoded.
C13_Witness ==
    /\ pc = "decoded"
    /\ zout.ok
    /\ Len(zin[1].attrs) >= 3
    /\ ~ascending(dict_keys(zin[1].attrs))

\* The Markdown text of the scenario: title, blank line, content, blank line,
\* the marker and a block that holds only greeting.
C14_Text ==
    "# my title\n\ncontent\n\n<!--- attributes --->\n    ---\n    greeting: hello\n"

\* The same text with creation_date and zlinks written in the block.
C14_FullText ==
    "# my title\n\ncontent\n\n<!--- attributes --->\n    ---\n"
    \o "    creation_date: 2022-04-19, Tue\n    greeting: hello\n    zlinks: {}\n"

\* What the text of the scenario decodes to.
C14_Decoded ==
    (txt = C14_Text /\ pc \in {"taken", "given back"}) =>
        /\ zout.ok
        /\ zout.zs[1].title = "my title"
        /\ zout.zs[1].headings = <<[k |-> "_notes", v |-> "\ncontent\n"]>>
        /\ dict_eq(zout.zs[1].attrs,
                   <<[k |-> "greeting", v |-> V_str("hello")],
                     [k |-> "creation_date", v |-> V_date(Today)],
                     [k |-> "zlinks", v |-> V_dict]>>)

\* C14 as stated: the text of the scenario decodes to title `my title`,
\* headings {_notes: "\ncontent\n"} and attrs greeting plus the defaults, and
\* encoding that Zettel with no heading filter gives the same text again.
C14_SameText ==
    /\ C14_Decoded
    /\ (txt = C14_Text /\ pc = "given back") => txt2 = txt

\* C14, amended: the text of the scenario decodes as stated, and encoding the
\* Zettel gives the text with the lines of the two defaults added to the
\* block in key order; the same text with `creation_date: 2022-04-19, Tue`
\* and `zlinks: {}` already in the block is given back character for
\* character.
C14_Scenario ==
    /\ C14_Decoded
    /\ (txt = C14_Text /\ pc = "given back") =>
          txt2 = "# my title\n\ncontent\n\n<!--- attributes --->\n    ---\n"
                 \o "    creation_date: " \o strftime(Today) \o "\n"
                 \o "    greeting: hello\n    zlinks: {}\n"
    /\ (txt = C14_FullText /\ pc = "given back") => txt2 = txt

\* The text of the scenario, decoded and encoded again.
C14_Witness ==
    /\ pc = "given back"
    /\ txt = C14_Text
    /\ txt2 # ""

\* The paths whose file the last call created or changed.
touched == {q \in DOMAIN files : q \notin DOMAIN ret.files \/ files[q] # ret.files[q]}

\* C15: save_zettels writes no _loadpath and puts it back: no file it wrote
\* has _loadpath in its attribute block, and when it returns or raises, every Zettel of the list has the _loadpath it had, and
\* the title, the headings and the other attrs it had.
C15_SaveRestores ==
    (pc = "called" /\ ret.op = "save") =>
        /\ \A q \in touched : "_loadpath" \notin listed(block_keys(files[q], fmt))
        /\ Len(zin) = Len(ret.zettels)
        /\ \A i \in 1..Len(zin) :
              /\ zin[i].title = ret.zettels[i].title
              /\ zin[i].headings = ret.zettels[i].headings
              /\ dict_eq(zin[i].attrs, ret.zettels[i].attrs)

\* save_zettels wrote the file of the first Zettel and raised at the second,
\* whose file could not be opened.
C15_Witness ==
    /\ pc = "called"
    /\ ret.op = "save"
    /\ ~ret.ok
    /\ ret.err = "OSError"
    /\ touched # {}
    /\ \A i \in 1..Len(zin) : dict_has(zin[i].attrs, "_loadpath")

\* C16: save_zettels, delete_zettels, copy_zettels and move_zettels, given a
\* list in which some Zettel has no _loadpath, raise KeyError and leave every
\* file as it was, the files of the Zettels that have a _loadpath included;
\* the Zettels of the list are as they were, too.
C16_AtomicFailure ==
    (/\ pc = "called"
     /\ ret.op \in {"save", "delete", "copy", "move"}
     /\ missing_loadpath(ret.zettels)) =>
        /\ ~ret.ok
        /\ ret.err = "KeyError"
        /\ files = ret.files
        /\ zin = ret.zettels

\* A list of a Zettel whose file exists and a Zettel without _loadpath was
\* handed to delete_zettels or move_zettels.
C16_Witness ==
    /\ pc = "called"
    /\ ret.op \in {"delete", "move"}
    /\ Len(ret.zettels) = 2
    /\ dict_has(ret.zettels[1].attrs, "_loadpath")
    /\ dict_get(ret.zettels[1].attrs, "_loadpath").v \in DOMAIN ret.files
    /\ ~dict_has(ret.zettels[2].attrs, "_loadpath")

\* The _loadpath of a Zettel that has one.
loadpath_of(z) == dict_get(z.attrs, "_loadpath").v

\* C17: after copy_zettels(zs, dest) returned, every source file exists and
\* so does each destination; after move_zettels(zs, dest) returned, each
\* destination exists and no source path does; and the call returned one
\* Zettel for each Zettel of zs, in order, with the new place as _loadpath
\* and the title, the headings and the other attrs of that Zettel.
C17_CopyMove ==
    (pc = "called" /\ ret.op \in {"copy", "move"} /\ ret.ok) =>
        /\ \A i \in 1..Len(ret.zettels) :
              /\ copy_target(loadpath_of(ret.zettels[i]), ret.dest) \in DOMAIN files
              /\ ret.op = "copy" => loadpath_of(ret.zettels[i]) \in DOMAIN files
              /\ ret.op = "move" => loadpath_of(ret.zettels[i]) \notin DOMAIN files
        /\ Len(ret.out) = Len(ret.zettels)
        /\ \A i \in 1..Len(ret.out) :
              /\ dict_has(ret.out[i].attrs, "_loadpath")
              /\ loadpath_of(ret.out[i])
                    = copy_target(loadpath_of(ret.zettels[i]), ret.dest)
              /\ ret.out[i].title = ret.zettels[i].title
              /\ ret.out[i].headings = ret.zettels[i].headings
              /\ dict_eq(dict_del(ret.out[i].attrs, "_loadpath"),
                         dict_del(ret.zettels[i].attrs, "_loadpath"))

\* The Zettels decoded from the documents of the text the user left in the
\* editor at the last call of edit_zettels, one for each document.
edited_zettels ==
    str_to_zettels(
        edit(zettels_to_str(with_defaults(ret.zettels, ret.headings), fmt,
                            ret.headings).s,
             fmt, ret.user),
        fmt).zs

\* The originals whose _loadpath no document of the edited text carries are
\* not returned; their files are as before, or gone when delete was set.
originals_left(documents) ==
    \A i \in 1..Len(ret.zettels) :
        (\A d \in 1..Len(documents) :
            loadpath_of(documents[d]) # loadpath_of(ret.zettels[i])) =>
            /\ \A n \in 1..Len(ret.out) :
                  loadpath_of(ret.out[n]) # loadpath_of(ret.zettels[i])
            /\ IF ret.delete THEN loadpath_of(ret.zettels[i]) \notin DOMAIN files
               ELSE /\ loadpath_of(ret.zettels[i]) \in DOMAIN files
                       <=> loadpath_of(ret.zettels[i]) \in DOMAIN ret.files
                    /\ loadpath_of(ret.zettels[i]) \in DOMAIN files =>
                          files[loadpath_of(ret.zettels[i])]
                              = ret.files[loadpath_of(ret.zettels[i])]

\* The returned Zettel z stands for document: it is an original of that
\* _loadpath, updated in place with the document's title, when there is one,
\* and the document's Zettel otherwise; and its text is in its file.
returned_for(z, document) ==
    /\ loadpath_of(z) = loadpath_of(document)
    /\ z.title = document.title
    /\ IF \E i \in 1..Len(ret.zettels) :
             loadpath_of(ret.zettels[i]) = loadpath_of(document)
       THEN \E i \in 1..Len(zin) :
               /\ loadpath_of(ret.zettels[i]) = loadpath_of(document)
               /\ zin[i] = z
       ELSE /\ z.headings = document.headings
            /\ dict_eq(z.attrs, document.attrs)
    /\ loadpath_of(z) \in DOMAIN files
    /\ files[loadpath_of(z)] = zettels_to_str(<<without_loadpath(z)>>, fmt, <<>>).s

\* C18 as stated, for the documents of the edited text: one returned Zettel
\* for each document, in order.
one_per_document(documents) ==
    /\ Len(ret.out) = Len(documents)
    /\ \A n \in 1..Len(ret.out) : returned_for(ret.out[n], documents[n])
    /\ originals_left(documents)

\* C18, amended: one returned Zettel for each _loadpath of the documents, in
\* the order in which the paths first occur, standing for the last document
\* with that path.
one_per_loadpath(documents) ==
    /\ Len(ret.out) = Len(orig_values(documents))
    /\ \A n \in 1..Len(ret.out) :
          returned_for(ret.out[n], documents[orig_values(documents)[n]])
    /\ originals_left(documents)

\* C18 as stated: when edit_zettels returns, it returns exactly one Zettel for
\* each document of the edited text, an original updated in place when the
\* document's _loadpath is that of an original, a new Zettel otherwise, each
\* saved to its file; an original whose _loadpath is in no document is not
\* returned, and its file is untouched, or removed when delete is True.
C18_OnePerDocument ==
    (pc = "called" /\ ret.op = "edit" /\ ret.ok) => one_per_document(edited_zettels)

\* C18, amended: the same with one Zettel for each distinct _loadpath of the
\* documents; of several documents with one _loadpath the last is used.
C18_Edit ==
    (pc = "called" /\ ret.op = "edit" /\ ret.ok) => one_per_loadpath(edited_zettels)

\* edit_zettels returned after the user copied one document, changed or
\* re-pathed another, or deleted one of two.
C18_Witness ==
    /\ pc = "called"
    /\ ret.op = "edit"
    /\ ret.ok
    /\ Len(ret.zettels) = 2
    /\ Len(ret.out) = 1
    /\ \E n \in 1..Len(ret.user) : ret.user[n] = "twice"

\* The lines of the title in the dialect fmt; none for an empty title.
shown_title(z) ==
    IF z.title = "" THEN <<>>
    ELSE IF fmt = "rst"
         THEN <<repeat("=", Len(z.title) + 2), " " \o z.title,
                repeat("=", Len(z.title) + 2)>>
    ELSE <<"# " \o z.title>>

\* The lines of the heading stored at index i of z's heading map: the body
\* alone for _notes, which has no marker.
shown_heading(z, i) ==
    IF z.headings[i].k = "_notes" THEN <<z.headings[i].v>>
    ELSE IF fmt = "rst"
         THEN <<z.headings[i].k, repeat("=", Len(z.headings[i].k)), z.headings[i].v>>
    ELSE <<"## " \o z.headings[i].k, z.headings[i].v>>

\* The lines from the attribute marker on.
shown_attrs(z) ==
    (IF fmt = "rst" THEN <<".. attributes", "::", "">> ELSE <<md_attr_header>>)
        \o attr_lines(z) \o <<"">>

\* The lines of the headings stored at the indices at, in that order.
RECURSIVE shown_headings(_, _)
shown_headings(z, at) ==
    IF Len(at) = 0 THEN <<>>
    ELSE shown_heading(z, at[1]) \o shown_headings(z, Tail(at))

\* Where z stores a heading that name matches, letter case apart.
stored_as(z, name) ==
    { i \in 1..Len(z.headings) : lower(z.headings[i].k) = lower(name) }

\* The names of the filter that get a marker: not _notes, and stored.
asked_stored(z) ==
    SelectSeq(filter, LAMBDA name : name # "_notes" /\ stored_as(z, name) # {})

\* The body of _notes when it is asked for and stored, else nothing.
asked_notes(z) ==
    IF in_list("_notes", filter) /\ stored_as(z, "_notes") # {}
    THEN <<dict_get(z.headings, "_notes")>> ELSE <<>>

\* C19: getMd and getRst with a heading filter never fail, and emit the title,
\* then the _notes body if and only if _notes is asked for and stored, then
\* the asked names that match a stored heading whatever the letter case, in
\* the caller's order and under a stored key, then the attribute block; a name
\* that matches nothing, _notes of a Zettel without one included, is skipped.
C19_Filter ==
    (pc \in {"shown", "raised"} /\ filter # <<>>) =>
        /\ pc = "shown"
        /\ \E at \in [1..Len(asked_stored(zin[1])) -> 1..Len(zin[1].headings)] :
              /\ \A n \in DOMAIN at : at[n] \in stored_as(zin[1], asked_stored(zin[1])[n])
              /\ enc = join("\n", shown_title(zin[1]) \o asked_notes(zin[1])
                                  \o shown_headings(zin[1], at)
                                  \o shown_attrs(zin[1]))

\* The text with every stored heading once, in insertion order; a _notes with
\* an empty body has a line of its own, or none when bare is set.
all_shown(z, bare) ==
    join("\n", shown_title(z)
               \o shown_headings(z,
                     SelectSeq([i \in 1..Len(z.headings) |-> i],
                               LAMBDA i : ~(bare /\ z.headings[i] = [k |-> "_notes", v |-> ""])))
               \o shown_attrs(z))

\* C20: getMd and getRst with no heading filter emit every stored heading
\* exactly once, in the insertion order of the heading map, whatever the map:
\* keys that differ only in letter case, or _notes not inserted first.
C20_NoFilter ==
    (pc \in {"shown", "raised"} /\ filter = <<>>) =>
        /\ pc = "shown"
        /\ enc \in {all_shown(zin[1], FALSE), all_shown(zin[1], TRUE)}

\* The body of an RST text has a title block: three lines at least, the
\* first and the third of them rule lines.
rst_titled(body) ==
    Len(body) >= 3 /\ _is_rst_heading(body[1]) /\ _is_rst_heading(body[3])

\* The content of the body: what follows the title block, or all of it.
rst_content(body) ==
    IF rst_titled(body) THEN SubSeq(body, 4, Len(body)) ELSE body

\* Where the heading names of the content are, as C21 has it: one line before
\* each rule line (0 for a rule line that is the first line).
rst_names(content) ==
    { i - 1 : i \in { j \in 1..Len(content) : _is_rst_heading(content[j]) } }

\* The last line of the part that starts at line i: the line before the next
\* heading name, or the last line of the content.
rst_upto(content, i) ==
    IF { n \in rst_names(content) : n > i } = {} THEN Len(content)
    ELSE least({ n \in rst_names(content) : n > i }) - 1

\* The headings fit the content as C21 has it: every rule line has its name
\* in the line before it and its body two lines after the name, _notes is
\* the lines before the first name, and nothing else is stored.
rst_delimited(content, stored) ==
    /\ \A n \in rst_names(content) :
          /\ n >= 1
          /\ dict_has(stored, content[n])
          /\ dict_get(stored, content[n])
                = lines_joined(content, n + 2, rst_upto(content, n))
    /\ IF dict_has(stored, "_notes")
       THEN dict_get(stored, "_notes")
                = lines_joined(content, 1, rst_upto(content, 0))
       ELSE lines_joined(content, 1, rst_upto(content, 0)) = ""
    /\ \A i \in 1..Len(stored) :
          \/ stored[i].k = "_notes"
          \/ \E n \in rst_names(content) : n >= 1 /\ content[n] = stored[i].k

\* C21: createFromRst takes a title only from a body of three lines or more
\* whose first and third lines are rule lines; otherwise the title is empty
\* and the whole body is content. In the content the line before each rule
\* line names a heading, whose body is the lines from two after the name up
\* to the next name or the end, and _notes is the lines before the first
\* name: no line is dropped, duplicated or moved.
C21_RstDelimit ==
    (pc = "parsed" /\ fmt = "rst" /\ zout.ok) =>
        /\ ~rst_titled(docs) => zout.zs[1].title = ""
        /\ rst_titled(docs) => zout.zs[1].title = strip(docs[2])
        /\ rst_delimited(rst_content(docs), zout.zs[1].headings)

\* A heading map after the changes of later that were made through one of the
\* variables in who, in the order in which they were made.
RECURSIVE after_changes(_, _, _)
after_changes(d, later, who) ==
    IF Len(later) = 0 THEN d
    ELSE after_changes(
            IF Head(later).x \notin who THEN d
            ELSE IF Head(later).op = "set" THEN dict_set(d, Head(later).k, "changed")
            ELSE dict_del(d, Head(later).k),
            Tail(later), who)

\* The heading map x has right after x.update(y, exp_headings) with a
\* non-empty exp_headings, from the maps mine and theirs the two had.
kept_and_taken(mine, theirs, exp_headings) ==
    dict_update(
        SelectSeq(mine, LAMBDA e : e.k \notin listed(exp_headings) \ key_set(theirs)),
        theirs)

\* x and y hold one heading map: it is y's map of the last update call with
\* every later change made through either.
one_map(x, y, map) ==
    /\ held[x].headings = held[y].headings
    /\ heap[held[x].headings] = after_changes(map, call.later, {x, y})

\* x and y hold two heading maps: each shows the changes made through its
\* own Zettel and no other.
two_maps(x, y, mine, theirs) ==
    /\ held[x].headings # held[y].headings
    /\ heap[held[x].headings] = after_changes(mine, call.later, {x})
    /\ heap[held[y].headings] = after_changes(theirs, call.later, {y})

=============================================================================
